---- MODULE Spec2Model ----
(***************************************************************************)
(* Stellar-Save payout executor (contracts/stellar-save/src/               *)
(* payout_executor.rs) and group-id counter (lib.rs).                      *)
(*                                                                         *)
(* Persistent storage is modelled as key/value maps named after the        *)
(* StorageKeyBuilder keys the code uses.  One invocation of execute_payout *)
(* runs on a working copy of the world; the Soroban host keeps the copy    *)
(* only when the invocation returns Ok.                                    *)
(***************************************************************************)
EXTENDS Integers, Sequences, FiniteSets, TLC

VARIABLES
    group_data,        \* StorageKeyBuilder::group_data(id)            -> Group
    group_members,     \* StorageKeyBuilder::group_members(id)         -> Vec<Address>
    member_profile,    \* StorageKeyBuilder::member_profile(id, addr)  -> MemberProfile
    payout_record,     \* StorageKeyBuilder::payout_record(id, cycle)  -> PayoutRecord
    payout_recipient,  \* StorageKeyBuilder::payout_recipient(id, cycle) -> Address
    contributions,     \* contribution ledger (id, cycle) -> count and total
    custody,           \* token balance held by the contract
    transfers,         \* transfers in effect, in order: [to, amount]
    events,            \* events published, in order
    history,           \* successful execute_payout calls, in order
    last,              \* the last operation and what it returned
    inflight,          \* invocations under way outside a serializing host
    next_group_id,     \* StorageKeyBuilder::next_group_id() -> u64 (<<>>: absent)
    issued             \* group ids returned so far, in order: [id, by]

vars == <<group_data, group_members, member_profile, payout_record,
          payout_recipient, contributions, custody, transfers, events,
          history, last, inflight, next_group_id, issued>>

----------------------------------------------------------------------------
(* Bounds of the model *)

MaxMembers == 3
MaxAmount == 2
MaxTime == 2
MaxGroupId == 3
MaxCalls == 2
U64Bits == 3
I128Bits == 4

GroupIds == 1..MaxGroupId
Addresses == 1..MaxMembers
Cycles == 0..MaxMembers
Amounts == 1..MaxAmount
Timestamps == 1..MaxTime
Procs == 1..MaxCalls

\* i128, scaled down to I128Bits bits
I128_MAX == 2 ^ (I128Bits - 1) - 1
I128_MIN == -(2 ^ (I128Bits - 1))
I128 == I128_MIN..I128_MAX

----------------------------------------------------------------------------
(* Key/value helpers *)

Put(m, k, v) == [x \in (DOMAIN m) \cup {k} |-> IF x = k THEN v ELSE m[x]]

Has(m, k) == k \in DOMAIN m

Ok(v) == [err |-> "Ok", val |-> v]

Err(e) == [err |-> e, val |-> 0]

World ==
    [group_data |-> group_data, group_members |-> group_members,
     member_profile |-> member_profile, payout_record |-> payout_record,
     payout_recipient |-> payout_recipient, contributions |-> contributions,
     custody |-> custody, transfers |-> transfers, events |-> events]

----------------------------------------------------------------------------
(* crate::pool::PoolCalculator *)

NoContribution == [contributors_count |-> 0, current_contributions |-> 0]

ledger_entry(w, group_id, cycle) ==
    IF Has(w.contributions, <<group_id, cycle>>)
    THEN w.contributions[<<group_id, cycle>>]
    ELSE NoContribution

get_pool_info(w, group_id, cycle) ==
    IF ~Has(w.group_data, group_id) THEN Err("GroupNotFound")
    ELSE LET group == w.group_data[group_id]
             entry == ledger_entry(w, group_id, cycle)
             total == group.contribution_amount * group.member_count
         IN  Ok([group_id |-> group_id,
                 cycle |-> cycle,
                 member_count |-> group.member_count,
                 contribution_amount |-> group.contribution_amount,
                 total_pool_amount |-> total,
                 current_contributions |-> entry.current_contributions,
                 contributors_count |-> entry.contributors_count,
                 is_cycle_complete |->
                     /\ entry.contributors_count >= group.member_count
                     /\ entry.current_contributions >= total])

validate_pool_ready_for_payout(pool_info) ==
    IF pool_info.contributors_count < pool_info.member_count
    THEN Err("CycleNotComplete")
    ELSE IF pool_info.current_contributions # pool_info.total_pool_amount
    THEN Err("InvalidAmount")
    ELSE Ok(0)

Fee == 0

\* checked subtraction of the fee; with Fee = 0 it cannot leave the i128 range
calculate_payout_amount(total_pool_amount) == Ok(total_pool_amount - Fee)

----------------------------------------------------------------------------
(* payout_executor.rs: validation helpers *)

\* Mutant of validate_cycle_complete: the pool is not checked for readiness.
validate_cycle_complete_unchecked(w, group_id, current_cycle) ==
    get_pool_info(w, group_id, current_cycle)

\* Mutant of validate_cycle_complete: the is_cycle_complete flag of the pool
\* is taken for readiness, so an over-collected pool passes.
validate_cycle_complete_flag_only(w, group_id, current_cycle) ==
    LET pool_info == get_pool_info(w, group_id, current_cycle)
    IN  IF pool_info.err # "Ok" THEN pool_info
        ELSE IF ~pool_info.val.is_cycle_complete THEN Err("CycleNotComplete")
        ELSE pool_info

validate_cycle_complete(w, group_id, current_cycle) ==
    LET pool_info == get_pool_info(w, group_id, current_cycle)
    IN  IF pool_info.err # "Ok" THEN pool_info
        ELSE LET ready == validate_pool_ready_for_payout(pool_info.val)
             IN  IF ready.err # "Ok" THEN ready ELSE pool_info

\* Option<Address>: <<>> is None, <<a>> is Some(a)
RECURSIVE scan_members(_, _, _, _, _, _, _)
scan_members(w, group_id, current_cycle, members, i, recipient, match_count) ==
    IF i > Len(members)
    THEN [err |-> "Ok", recipient |-> recipient, match_count |-> match_count]
    ELSE LET member_address == members[i]
             profile_key == <<group_id, member_address>>
         IN  IF ~Has(w.member_profile, profile_key)
             THEN [err |-> "InvalidState", recipient |-> recipient,
                   match_count |-> match_count]
             ELSE IF w.member_profile[profile_key].payout_position = current_cycle
             THEN scan_members(w, group_id, current_cycle, members, i + 1,
                               <<member_address>>, match_count + 1)
             ELSE scan_members(w, group_id, current_cycle, members, i + 1,
                               recipient, match_count)

\* Mutant of identify_recipient: with several matches the last one is taken.
identify_recipient_last_match(w, group_id, current_cycle, member_count) ==
    IF ~Has(w.group_members, group_id) THEN Err("GroupNotFound")
    ELSE LET members == w.group_members[group_id]
         IN  IF Len(members) # member_count THEN Err("InvalidState")
             ELSE LET s == scan_members(w, group_id, current_cycle, members, 1,
                                        <<>>, 0)
                  IN  IF s.err # "Ok" THEN Err(s.err)
                      ELSE IF s.match_count = 0 THEN Err("InvalidState")
                      ELSE Ok(s.recipient[1])

\* Mutant of identify_recipient: the length of the member list is not
\* compared with member_count.
identify_recipient_length_unchecked(w, group_id, current_cycle, member_count) ==
    IF ~Has(w.group_members, group_id) THEN Err("GroupNotFound")
    ELSE LET members == w.group_members[group_id]
             s == scan_members(w, group_id, current_cycle, members, 1, <<>>, 0)
         IN  IF s.err # "Ok" THEN Err(s.err)
             ELSE IF s.match_count = 0 THEN Err("InvalidState")
             ELSE IF s.match_count = 1 THEN Ok(s.recipient[1])
             ELSE Err("InvalidState")

\* Mutant of identify_recipient: the member at position 0 is looked for in
\* every cycle.
identify_recipient_first_position(w, group_id, current_cycle, member_count) ==
    IF ~Has(w.group_members, group_id) THEN Err("GroupNotFound")
    ELSE LET members == w.group_members[group_id]
         IN  IF Len(members) # member_count THEN Err("InvalidState")
             ELSE LET s == scan_members(w, group_id, 0, members, 1, <<>>, 0)
                  IN  IF s.err # "Ok" THEN Err(s.err)
                      ELSE IF s.match_count = 0 THEN Err("InvalidState")
                      ELSE IF s.match_count = 1 THEN Ok(s.recipient[1])
                      ELSE Err("InvalidState")

identify_recipient(w, group_id, current_cycle, member_count) ==
    IF ~Has(w.group_members, group_id) THEN Err("GroupNotFound")
    ELSE LET members == w.group_members[group_id]
         IN  IF Len(members) # member_count THEN Err("InvalidState")
             ELSE LET s == scan_members(w, group_id, current_cycle, members, 1,
                                        <<>>, 0)
                  IN  IF s.err # "Ok" THEN Err(s.err)
                      ELSE IF s.match_count = 0 THEN Err("InvalidState")
                      ELSE IF s.match_count = 1 THEN Ok(s.recipient[1])
                      ELSE Err("InvalidState")

\* Mutant of verify_recipient_eligibility: the payout history is not scanned.
verify_recipient_eligibility_member_only(w, group_id, recipient, current_cycle) ==
    IF ~Has(w.member_profile, <<group_id, recipient>>) THEN Err("NotMember")
    ELSE Ok(0)

\* Mutant of verify_recipient_eligibility: the recipient index is scanned
\* without regard to the group of the entry.
verify_recipient_eligibility_any_group(w, group_id, recipient, current_cycle) ==
    IF ~Has(w.member_profile, <<group_id, recipient>>) THEN Err("NotMember")
    ELSE IF \E key \in DOMAIN w.payout_recipient :
                /\ key[2] \in 0..current_cycle
                /\ w.payout_recipient[key] = recipient
    THEN Err("InvalidRecipient")
    ELSE Ok(0)

\* Mutant of verify_recipient_eligibility: membership is looked up under the
\* key of the current cycle instead of the group.
verify_recipient_eligibility_cycle_key(w, group_id, recipient, current_cycle) ==
    IF ~Has(w.member_profile, <<current_cycle, recipient>>) THEN Err("NotMember")
    ELSE IF \E cycle \in 0..current_cycle :
                /\ Has(w.payout_recipient, <<group_id, cycle>>)
                /\ w.payout_recipient[<<group_id, cycle>>] = recipient
    THEN Err("InvalidRecipient")
    ELSE Ok(0)

verify_recipient_eligibility(w, group_id, recipient, current_cycle) ==
    IF ~Has(w.member_profile, <<group_id, recipient>>) THEN Err("NotMember")
    ELSE IF \E cycle \in 0..current_cycle :
                /\ Has(w.payout_recipient, <<group_id, cycle>>)
                /\ w.payout_recipient[<<group_id, cycle>>] = recipient
    THEN Err("InvalidRecipient")
    ELSE Ok(0)

\* Mutant of calculate_and_validate_payout_amount: one contribution is paid
\* out instead of the pool.
calculate_and_validate_payout_amount_one_share(pool_info) ==
    LET payout_amount == calculate_payout_amount(pool_info.contribution_amount)
    IN  IF payout_amount.err # "Ok" THEN payout_amount
        ELSE IF payout_amount.val <= 0 THEN Err("InvalidAmount")
        ELSE payout_amount

calculate_and_validate_payout_amount(pool_info) ==
    LET payout_amount == calculate_payout_amount(pool_info.total_pool_amount)
    IN  IF payout_amount.err # "Ok" THEN payout_amount
        ELSE IF payout_amount.val <= 0 THEN Err("InvalidAmount")
        ELSE payout_amount

PlaceholderBalance == 0

\* Mutant of verify_contract_balance: the comparison is `balance > payout_amount`
\* with the operands exchanged, so a balance of 0 covers every positive amount.
verify_contract_balance_exchanged(balance, payout_amount) ==
    IF payout_amount < balance THEN Err("PayoutFailed") ELSE Ok(0)

verify_contract_balance(balance, payout_amount) ==
    IF balance < payout_amount THEN Err("PayoutFailed") ELSE Ok(0)

----------------------------------------------------------------------------
(* payout_executor.rs: execution helpers.  Each returns [err, w]: the     *)
(* result and the working copy of the world after the step.               *)

Step(e, w) == [err |-> e, w |-> w]

\* token.transfer(contract, recipient, amount): the value-transfer primitive
token_transfer(w, recipient, amount) ==
    [w EXCEPT !.custody = w.custody - amount,
              !.transfers = Append(w.transfers, [to |-> recipient, amount |-> amount])]

\* Mutant of execute_transfer: the overflow guard is `amount >= i128::MAX`.
execute_transfer_max_excluded(w, recipient, amount) ==
    IF amount <= 0 THEN Step("PayoutFailed", w)
    ELSE IF amount >= I128_MAX THEN Step("Overflow", w)
    ELSE Step("Ok", token_transfer(w, recipient, amount))

\* The guard `amount > i128::MAX` of the code is false for every i128.
execute_transfer(w, recipient, amount) ==
    IF amount <= 0 THEN Step("PayoutFailed", w)
    ELSE IF amount > I128_MAX THEN Step("Overflow", w)
    ELSE Step("Ok", token_transfer(w, recipient, amount))

\* crate::payout::PayoutRecord::new and PayoutRecord::validate
PayoutRecord_new(recipient, group_id, cycle, amount, timestamp) ==
    [recipient |-> recipient, group_id |-> group_id, cycle_number |-> cycle,
     amount |-> amount, timestamp |-> timestamp]

PayoutRecord_validate(record) == record.amount > 0

\* Mutant of record_payout: both keys are built for the next cycle.
record_payout_next_cycle(w, group_id, cycle, recipient, amount, timestamp) ==
    IF amount <= 0 THEN Step("Panic", w)
    ELSE LET rec == PayoutRecord_new(recipient, group_id, cycle, amount, timestamp)
         IN  Step("Ok",
                  [w EXCEPT !.payout_record =
                                Put(w.payout_record, <<group_id, cycle + 1>>, rec),
                            !.payout_recipient =
                                Put(w.payout_recipient, <<group_id, cycle + 1>>, recipient)])

\* Mutant of record_payout: the keys are built from the cycle alone, under
\* group 1.
record_payout_shared_key(w, group_id, cycle, recipient, amount, timestamp) ==
    IF amount <= 0 THEN Step("Panic", w)
    ELSE LET rec == PayoutRecord_new(recipient, group_id, cycle, amount, timestamp)
         IN  Step("Ok",
                  [w EXCEPT !.payout_record = Put(w.payout_record, <<1, cycle>>, rec),
                            !.payout_recipient =
                                Put(w.payout_recipient, <<1, cycle>>, recipient)])

\* Mutant of record_payout: the recipient index (lines 442-444) is not written.
record_payout_record_only(w, group_id, cycle, recipient, amount, timestamp) ==
    IF amount <= 0 THEN Step("Panic", w)
    ELSE LET rec == PayoutRecord_new(recipient, group_id, cycle, amount, timestamp)
         IN  Step("Ok",
                  [w EXCEPT !.payout_record = Put(w.payout_record, <<group_id, cycle>>, rec)])

\* Mutant of record_payout: an amount that is not positive is refused by
\* validate() instead of the constructor.
record_payout_invalid_is_err(w, group_id, cycle, recipient, amount, timestamp) ==
    LET rec == PayoutRecord_new(recipient, group_id, cycle, amount, timestamp)
    IN  IF ~PayoutRecord_validate(rec) THEN Step("InternalError", w)
        ELSE Step("Ok",
                  [w EXCEPT !.payout_record = Put(w.payout_record, <<group_id, cycle>>, rec),
                            !.payout_recipient =
                                Put(w.payout_recipient, <<group_id, cycle>>, recipient)])

\* PayoutRecord::new panics on amount <= 0.
record_payout(w, group_id, cycle, recipient, amount, timestamp) ==
    IF amount <= 0 THEN Step("Panic", w)
    ELSE LET rec == PayoutRecord_new(recipient, group_id, cycle, amount, timestamp)
         IN  IF ~PayoutRecord_validate(rec) THEN Step("InternalError", w)
             ELSE Step("Ok",
                  [w EXCEPT !.payout_record = Put(w.payout_record, <<group_id, cycle>>, rec),
                            !.payout_recipient =
                                Put(w.payout_recipient, <<group_id, cycle>>, recipient)])

\* Mutant of update_member_status: the profile key is built from the
\* address alone.
update_member_status_any_group(w, group_id, recipient) ==
    IF \A g \in GroupIds : ~Has(w.member_profile, <<g, recipient>>)
    THEN Step("InternalError", w)
    ELSE Step("Ok", w)

\* Mutant of update_member_status: the profile is looked up under the next
\* group id.
update_member_status_wrong_group(w, group_id, recipient) ==
    IF ~Has(w.member_profile, <<group_id + 1, recipient>>) THEN Step("InternalError", w)
    ELSE Step("Ok", w)

update_member_status(w, group_id, recipient) ==
    IF ~Has(w.member_profile, <<group_id, recipient>>) THEN Step("InternalError", w)
    ELSE Step("Ok", w)

emit_payout_event(w, group_id, recipient, amount, cycle, timestamp) ==
    [w EXCEPT !.events = Append(w.events,
        [kind |-> "payout_executed", group_id |-> group_id, recipient |-> recipient,
         amount |-> amount, cycle |-> cycle, timestamp |-> timestamp])]

\* crate::group::Group::is_complete and Group::advance_cycle
Group_is_complete(group) == group.current_cycle >= group.max_members

\* Mutant of Group_advance_cycle: member_count is counted down with the
\* cycles that remain.
Group_advance_cycle_counts_down(group) ==
    LET next == [group EXCEPT !.current_cycle = group.current_cycle + 1,
                              !.member_count = group.member_count - 1]
    IN  IF Group_is_complete(next)
        THEN [next EXCEPT !.status = "Completed", !.is_active = FALSE]
        ELSE next

Group_advance_cycle(group) ==
    LET next == [group EXCEPT !.current_cycle = group.current_cycle + 1]
    IN  IF Group_is_complete(next)
        THEN [next EXCEPT !.status = "Completed", !.is_active = FALSE]
        ELSE next

\* Mutant of advance_cycle_or_complete: the advanced group is not saved.
advance_cycle_or_complete_not_saved(w, group) ==
    IF Group_is_complete(group) THEN Step("Panic", w) ELSE Step("Ok", w)

\* Mutant of advance_cycle_or_complete: only the cycle number is saved.
advance_cycle_or_complete_cycle_only(w, group) ==
    IF Group_is_complete(group) THEN Step("Panic", w)
    ELSE LET advanced == Group_advance_cycle(group)
         IN  Step("Ok", [w EXCEPT !.group_data = Put(w.group_data, group.id,
                 [group EXCEPT !.current_cycle = advanced.current_cycle])])

\* Mutant of advance_cycle_or_complete: a complete group is refused with an
\* error value.
advance_cycle_or_complete_err_when_complete(w, group) ==
    IF Group_is_complete(group) THEN Step("InvalidState", w)
    ELSE LET advanced == Group_advance_cycle(group)
             emitted == IF Group_is_complete(advanced)
                        THEN Append(w.events, [kind |-> "group_completed",
                                               group_id |-> group.id])
                        ELSE w.events
         IN  Step("Ok", [w EXCEPT !.events = emitted,
                                  !.group_data = Put(w.group_data, group.id, advanced)])

\* Group::advance_cycle panics on a group that is already complete and
\* publishes GroupCompleted when the advance completes the group.
advance_cycle_or_complete(w, group) ==
    IF Group_is_complete(group) THEN Step("Panic", w)
    ELSE LET advanced == Group_advance_cycle(group)
             emitted == IF Group_is_complete(advanced)
                        THEN Append(w.events, [kind |-> "group_completed",
                                               group_id |-> group.id])
                        ELSE w.events
         IN  Step("Ok", [w EXCEPT !.events = emitted,
                                  !.group_data = Put(w.group_data, group.id, advanced)])

----------------------------------------------------------------------------
(* payout_executor.rs: execute_payout *)

Faults == {"none", "record", "member", "notify", "advance"}

Outcome(result, w, paid) == [result |-> result, w |-> w, paid |-> paid]

\* Mutant of execute_phase: a notification that is not delivered is returned
\* as an error.
execute_phase_notify_propagates(w, group, group_id, current_cycle, recipient, payout_amount, timestamp, fault) ==
    LET s9 == execute_transfer(w, recipient, payout_amount)
    IN  IF s9.err # "Ok" THEN Outcome(s9.err, s9.w, <<>>)
        ELSE LET s10 == IF fault = "record" THEN Step("InternalError", s9.w)
                        ELSE record_payout(s9.w, group_id, current_cycle, recipient,
                                           payout_amount, timestamp)
        IN  IF s10.err # "Ok" THEN Outcome(s10.err, s10.w, <<>>)
        ELSE LET s11 == IF fault = "member" THEN Step("InternalError", s10.w)
                        ELSE update_member_status(s10.w, group_id, recipient)
        IN  IF s11.err # "Ok" THEN Outcome(s11.err, s11.w, <<>>)
        ELSE LET w12 == IF fault = "notify" THEN s11.w
                        ELSE emit_payout_event(s11.w, group_id, recipient,
                                               payout_amount, current_cycle, timestamp)
                 s13 == IF fault = "advance" THEN Step("InternalError", w12)
                        ELSE advance_cycle_or_complete(w12, group)
        IN  IF fault = "notify" THEN Outcome("InternalError", w12, <<>>)
        ELSE IF s13.err # "Ok" THEN Outcome(s13.err, s13.w, <<>>)
        ELSE Outcome("Ok", s13.w,
                     <<[group_id |-> group_id, cycle |-> current_cycle,
                        recipient |-> recipient, amount |-> payout_amount,
                        timestamp |-> timestamp]>>)

\* Mutant of execute_phase: the cycle is advanced before the event is
\* published.
execute_phase_advance_before_event(w, group, group_id, current_cycle, recipient, payout_amount, timestamp, fault) ==
    LET s9 == execute_transfer(w, recipient, payout_amount)
    IN  IF s9.err # "Ok" THEN Outcome(s9.err, s9.w, <<>>)
        ELSE LET s10 == IF fault = "record" THEN Step("InternalError", s9.w)
                        ELSE record_payout(s9.w, group_id, current_cycle, recipient,
                                           payout_amount, timestamp)
        IN  IF s10.err # "Ok" THEN Outcome(s10.err, s10.w, <<>>)
        ELSE LET s11 == IF fault = "member" THEN Step("InternalError", s10.w)
                        ELSE update_member_status(s10.w, group_id, recipient)
        IN  IF s11.err # "Ok" THEN Outcome(s11.err, s11.w, <<>>)
        ELSE LET s13 == IF fault = "advance" THEN Step("InternalError", s11.w)
                        ELSE advance_cycle_or_complete(s11.w, group)
                 w12 == IF fault = "notify" THEN s13.w
                        ELSE emit_payout_event(s13.w, group_id, recipient,
                                               payout_amount, current_cycle, timestamp)
        IN  IF s13.err # "Ok" THEN Outcome(s13.err, s13.w, <<>>)
        ELSE Outcome("Ok", w12,
                     <<[group_id |-> group_id, cycle |-> current_cycle,
                        recipient |-> recipient, amount |-> payout_amount,
                        timestamp |-> timestamp]>>)

\* Steps 9-13.  `fault` names the step at which the host's storage fails
\* ("none": no failure); "notify" is a notification that is not delivered,
\* which emit_payout_event (it returns nothing) cannot report.
execute_phase(w, group, group_id, current_cycle, recipient, payout_amount, timestamp, fault) ==
    LET s9 == execute_transfer(w, recipient, payout_amount)
    IN  IF s9.err # "Ok" THEN Outcome(s9.err, s9.w, <<>>)
        ELSE LET s10 == IF fault = "record" THEN Step("InternalError", s9.w)
                        ELSE record_payout(s9.w, group_id, current_cycle, recipient,
                                           payout_amount, timestamp)
        IN  IF s10.err # "Ok" THEN Outcome(s10.err, s10.w, <<>>)
        ELSE LET s11 == IF fault = "member" THEN Step("InternalError", s10.w)
                        ELSE update_member_status(s10.w, group_id, recipient)
        IN  IF s11.err # "Ok" THEN Outcome(s11.err, s11.w, <<>>)
        ELSE LET w12 == IF fault = "notify" THEN s11.w
                        ELSE emit_payout_event(s11.w, group_id, recipient,
                                               payout_amount, current_cycle, timestamp)
                 s13 == IF fault = "advance" THEN Step("InternalError", w12)
                        ELSE advance_cycle_or_complete(w12, group)
        IN  IF s13.err # "Ok" THEN Outcome(s13.err, s13.w, <<>>)
        ELSE Outcome("Ok", s13.w,
                     <<[group_id |-> group_id, cycle |-> current_cycle,
                        recipient |-> recipient, amount |-> payout_amount,
                        timestamp |-> timestamp]>>)

\* Mutant of require_active: the status is not checked.
require_active_unchecked(group) == Ok(0)

require_active(group) ==
    IF group.status # "Active" THEN Err("InvalidState") ELSE Ok(0)

\* Mutant of payout_already_executed: the recipient index is not looked at.
payout_already_executed_unchecked(w, group_id, current_cycle) == FALSE

payout_already_executed(w, group_id, current_cycle) ==
    Has(w.payout_recipient, <<group_id, current_cycle>>)

Validated(group, current_cycle, recipient, payout_amount) ==
    Ok([group |-> group, current_cycle |-> current_cycle,
        recipient |-> recipient, payout_amount |-> payout_amount])

\* Mutant of validate_payout: the cycle is validated (step 4) before the
\* status and the recipient index are looked at (steps 2 and 3).
validate_payout_cycle_first(w, group_id) ==
    IF ~Has(w.group_data, group_id) THEN Err("GroupNotFound")
    ELSE LET group == w.group_data[group_id]
             current_cycle == group.current_cycle
             pool_info == validate_cycle_complete(w, group_id, current_cycle)
             active == require_active(group)
    IN  IF pool_info.err # "Ok" THEN pool_info
    ELSE IF active.err # "Ok" THEN active
    ELSE IF payout_already_executed(w, group_id, current_cycle)
        THEN Err("InvalidState")
    ELSE LET recipient == identify_recipient(w, group_id, current_cycle,
                                             group.member_count)
    IN  IF recipient.err # "Ok" THEN recipient
    ELSE LET eligible == verify_recipient_eligibility(w, group_id, recipient.val,
                                                      current_cycle)
    IN  IF eligible.err # "Ok" THEN eligible
    ELSE LET payout_amount == calculate_and_validate_payout_amount(pool_info.val)
    IN  IF payout_amount.err # "Ok" THEN payout_amount
    ELSE Validated(group, current_cycle, recipient.val, payout_amount.val)

\* Steps 1-7: nothing is written.
validate_payout(w, group_id) ==
    IF ~Has(w.group_data, group_id) THEN Err("GroupNotFound")
    ELSE LET group == w.group_data[group_id]
             active == require_active(group)
    IN  IF active.err # "Ok" THEN active
    ELSE LET current_cycle == group.current_cycle
    IN  IF payout_already_executed(w, group_id, current_cycle)
        THEN Err("InvalidState")
    ELSE LET pool_info == validate_cycle_complete(w, group_id, current_cycle)
    IN  IF pool_info.err # "Ok" THEN pool_info
    ELSE LET recipient == identify_recipient(w, group_id, current_cycle,
                                             group.member_count)
    IN  IF recipient.err # "Ok" THEN recipient
    ELSE LET eligible == verify_recipient_eligibility(w, group_id, recipient.val,
                                                      current_cycle)
    IN  IF eligible.err # "Ok" THEN eligible
    ELSE LET payout_amount == calculate_and_validate_payout_amount(pool_info.val)
    IN  IF payout_amount.err # "Ok" THEN payout_amount
    ELSE Validated(group, current_cycle, recipient.val, payout_amount.val)

\* Mutant of execute_payout: the transfer is made before the balance check.
execute_payout_pay_then_check(w, group_id, balance, timestamp, fault) ==
    LET v == validate_payout(w, group_id)
    IN  IF v.err # "Ok" THEN Outcome(v.err, w, <<>>)
        ELSE LET s9 == execute_transfer(w, v.val.recipient, v.val.payout_amount)
                 funded == verify_contract_balance(balance, v.val.payout_amount)
             IN  IF funded.err # "Ok" THEN Outcome(funded.err, s9.w, <<>>)
                 ELSE execute_phase(w, v.val.group, group_id, v.val.current_cycle,
                                    v.val.recipient, v.val.payout_amount,
                                    timestamp, fault)

\* Mutant of execute_payout: a missing group is reported as InvalidState.
execute_payout_missing_group_invalid_state(w, group_id, balance, timestamp, fault) ==
    LET v == IF ~Has(w.group_data, group_id) THEN Err("InvalidState")
             ELSE validate_payout(w, group_id)
    IN  IF v.err # "Ok" THEN Outcome(v.err, w, <<>>)
        ELSE LET funded == verify_contract_balance(balance, v.val.payout_amount)
             IN  IF funded.err # "Ok" THEN Outcome(funded.err, w, <<>>)
                 ELSE execute_phase(w, v.val.group, group_id, v.val.current_cycle,
                                    v.val.recipient, v.val.payout_amount,
                                    timestamp, fault)

\* Steps 1-7, step 8 and the execution phase.  `balance` is the balance that
\* verify_contract_balance reads.
execute_payout(w, group_id, balance, timestamp, fault) ==
    LET v == validate_payout(w, group_id)
    IN  IF v.err # "Ok" THEN Outcome(v.err, w, <<>>)
        ELSE LET funded == verify_contract_balance(balance, v.val.payout_amount)
             IN  IF funded.err # "Ok" THEN Outcome(funded.err, w, <<>>)
                 ELSE execute_phase(w, v.val.group, group_id, v.val.current_cycle,
                                    v.val.recipient, v.val.payout_amount,
                                    timestamp, fault)

\* Mutant of Commit: the host keeps the writes of a failed invocation.
Commit_no_rollback(w, r) == r.w

\* The Soroban host: an invocation that does not return Ok leaves no trace.
Commit(w, r) == IF r.result = "Ok" THEN r.w ELSE w

----------------------------------------------------------------------------
(* lib.rs: the group-id counter.  u64 is scaled down to U64Bits bits; the   *)
(* stored counter is an Option: <<>> is absent, <<n>> is Some(n).           *)

U64_MAX == 2 ^ U64Bits - 1

unwrap_or(option, default) == IF option = <<>> THEN default ELSE option[1]

\* u64::checked_add: None when the sum does not fit
checked_add(a, b) == IF a + b > U64_MAX THEN <<>> ELSE <<a + b>>

Issue(err, val, stored) == [err |-> err, val |-> val, stored |-> stored]

generate_next_group_id(stored) ==
    LET current_id == unwrap_or(stored, 0)
        next_id == checked_add(current_id, 1)
    IN  IF next_id = <<>> THEN Issue("Overflow", 0, stored)
        ELSE Issue("Ok", next_id[1], next_id)

\* increment_group_id without line 77: the counter is never written back
increment_group_id_not_stored(stored) ==
    LET current_id == unwrap_or(stored, 0)
        next_id == checked_add(current_id, 1)
    IN  IF next_id = <<>> THEN Issue("Overflow", 0, stored)
        ELSE Issue("Ok", next_id[1], stored)

\* increment_group_id with wrapping_add in place of checked_add
increment_group_id_wrapping(stored) ==
    LET current_id == unwrap_or(stored, 0)
        next_id == (current_id + 1) % (2 ^ U64Bits)
    IN  Issue("Ok", next_id, <<next_id>>)

increment_group_id(stored) ==
    LET current_id == unwrap_or(stored, 0)
        next_id == checked_add(current_id, 1)
    IN  IF next_id = <<>> THEN Issue("Overflow", 0, stored)
        ELSE Issue("Ok", next_id[1], next_id)

----------------------------------------------------------------------------
(* The state machine *)

\* crate::group::Group::new
Group_new(id, contribution_amount, max_members) ==
    [id |-> id, creator |-> 1, contribution_amount |-> contribution_amount,
     cycle_duration |-> 1, max_members |-> max_members, min_members |-> 2,
     member_count |-> max_members, created_at |-> 0,
     current_cycle |-> 0, status |-> "Active", is_active |-> TRUE]

EmptyMap == [x \in {} |-> 0]

\* The locals of one invocation of execute_payout and the step it is at.
NoPoolInfo ==
    [group_id |-> 0, cycle |-> 0, member_count |-> 0, contribution_amount |-> 0,
     total_pool_amount |-> 0, current_contributions |-> 0,
     contributors_count |-> 0, is_cycle_complete |-> FALSE]

Idle ==
    [pc |-> "idle", group_id |-> 0, group |-> Group_new(0, 0, 0),
     current_cycle |-> 0, pool_info |-> NoPoolInfo, recipient |-> 0,
     payout_amount |-> 0, timestamp |-> 0]

NoneInFlight == [p \in Procs |-> Idle]

\* One full group, id 1: members 1..m enrolled at positions 0..m-1.
Init ==
    \E m \in 2..MaxMembers, a \in Amounts :
        /\ group_data = [g \in {1} |-> Group_new(1, a, m)]
        /\ group_members = [g \in {1} |-> [i \in 1..m |-> i]]
        /\ member_profile = [k \in {1} \X (1..m) |-> [payout_position |-> k[2] - 1]]
        /\ payout_record = EmptyMap
        /\ payout_recipient = EmptyMap
        /\ contributions = EmptyMap
        /\ custody = 0
        /\ transfers = <<>>
        /\ events = <<>>
        /\ history = <<>>
        /\ last = [op |-> "init", group_id |-> 0, result |-> "Ok"]
        /\ inflight = NoneInFlight
        /\ next_group_id = <<>>
        /\ issued = <<>>

Invoke(group_id, balance, timestamp, fault) ==
    LET r == execute_payout(World, group_id, balance, timestamp, fault)
        c == Commit(World, r)
    IN  /\ group_data' = c.group_data
        /\ group_members' = c.group_members
        /\ member_profile' = c.member_profile
        /\ payout_record' = c.payout_record
        /\ payout_recipient' = c.payout_recipient
        /\ contributions' = c.contributions
        /\ custody' = c.custody
        /\ transfers' = c.transfers
        /\ events' = c.events
        /\ history' = IF r.result = "Ok" THEN history \o r.paid ELSE history
        /\ last' = [op |-> "execute_payout", group_id |-> group_id,
                    result |-> r.result]
        /\ UNCHANGED <<inflight, next_group_id, issued>>

\* execute_payout as the code stands: the balance read is the placeholder.
ExecutePayout ==
    \E group_id \in GroupIds, timestamp \in Timestamps :
        Invoke(group_id, PlaceholderBalance, timestamp, "none")

\* execute_payout with the balance read from the token contract.
ExecutePayoutFunded ==
    \E group_id \in GroupIds, timestamp \in Timestamps :
        Invoke(group_id, custody, timestamp, "none")

\* execute_payout with a storage failure injected after the transfer.
ExecutePayoutFault ==
    \E group_id \in GroupIds, timestamp \in Timestamps, fault \in Faults :
        Invoke(group_id, custody, timestamp, fault)

\* Contribution collection: a member pays `amount` into the current cycle.
Contribute ==
    \E group_id \in DOMAIN group_data, amount \in Amounts :
        LET group == group_data[group_id]
            key == <<group_id, group.current_cycle>>
            entry == ledger_entry(World, group_id, group.current_cycle)
        IN  /\ group.status = "Active"
            /\ entry.contributors_count < group.member_count
            /\ contributions' = Put(contributions, key,
                   [contributors_count |-> entry.contributors_count + 1,
                    current_contributions |-> entry.current_contributions + amount])
            /\ custody' = custody + amount
            /\ last' = [op |-> "contribute", group_id |-> group_id, result |-> "Ok"]
            /\ UNCHANGED <<group_data, group_members, member_profile, payout_record,
                           payout_recipient, transfers, events, history, inflight,
                           next_group_id, issued>>

\* Enrollment: a member's payout position is reassigned.
SetPayoutPosition ==
    \E key \in DOMAIN member_profile :
        \E p \in 0..(group_data[key[1]].member_count - 1) :
            /\ p # member_profile[key].payout_position
            /\ member_profile' = Put(member_profile, key, [payout_position |-> p])
            /\ last' = [op |-> "enroll", group_id |-> key[1], result |-> "Ok"]
            /\ UNCHANGED <<group_data, group_members, payout_record, payout_recipient,
                           contributions, custody, transfers, events, history,
                           inflight, next_group_id, issued>>

Next == ExecutePayout \/ Contribute \/ SetPayoutPosition

Spec == Init /\ [][Next]_vars

NextFunded == ExecutePayoutFunded \/ Contribute \/ SetPayoutPosition

SpecFunded == Init /\ [][NextFunded]_vars

NextFault == ExecutePayoutFault \/ Contribute

SpecFault == Init /\ [][NextFault]_vars

\* The code as it stands, with enrollment closed and a trigger that keeps
\* being invoked on group 1.
NextLive == ExecutePayout \/ Contribute

TriggerLive ==
    \E timestamp \in Timestamps : Invoke(1, PlaceholderBalance, timestamp, "none")

SpecLive == Init /\ [][NextLive]_vars /\ WF_vars(TriggerLive)

\* Two full groups, ids 1 and 2, of the same two members, enrollment closed.
TwoGroupSize == 2

InitTwo ==
    \E a \in Amounts :
        /\ group_data = [g \in {1, 2} |-> Group_new(g, a, TwoGroupSize)]
        /\ group_members = [g \in {1, 2} |-> [i \in 1..TwoGroupSize |-> i]]
        /\ member_profile = [k \in {1, 2} \X (1..TwoGroupSize) |->
                                [payout_position |-> k[2] - 1]]
        /\ payout_record = EmptyMap
        /\ payout_recipient = EmptyMap
        /\ contributions = EmptyMap
        /\ custody = 0
        /\ transfers = <<>>
        /\ events = <<>>
        /\ history = <<>>
        /\ last = [op |-> "init", group_id |-> 0, result |-> "Ok"]
        /\ inflight = NoneInFlight
        /\ next_group_id = <<>>
        /\ issued = <<>>

NextTwo == ExecutePayoutFunded \/ Contribute

SpecTwo == InitTwo /\ [][NextTwo]_vars

\* Group 1 new, beside a group 2 of the same two members that has run to
\* completion: member i was paid in cycle i - 1 of group 2.
InitNeighbour ==
    \E a \in Amounts :
        /\ group_data =
               [g \in {1, 2} |->
                   IF g = 1 THEN Group_new(1, a, TwoGroupSize)
                   ELSE [Group_new(2, a, TwoGroupSize) EXCEPT
                            !.current_cycle = TwoGroupSize,
                            !.status = "Completed", !.is_active = FALSE]]
        /\ group_members = [g \in {1, 2} |-> [i \in 1..TwoGroupSize |-> i]]
        /\ member_profile = [k \in {1, 2} \X (1..TwoGroupSize) |->
                                [payout_position |-> k[2] - 1]]
        /\ payout_record =
               [k \in {2} \X (0..(TwoGroupSize - 1)) |->
                   PayoutRecord_new(k[2] + 1, 2, k[2], a * TwoGroupSize, 1)]
        /\ payout_recipient = [k \in {2} \X (0..(TwoGroupSize - 1)) |-> k[2] + 1]
        /\ contributions = EmptyMap
        /\ custody = 0
        /\ transfers = <<>>
        /\ events = <<>>
        /\ history = <<>>
        /\ last = [op |-> "init", group_id |-> 0, result |-> "Ok"]
        /\ inflight = NoneInFlight
        /\ next_group_id = <<>>
        /\ issued = <<>>

SpecNeighbour == InitNeighbour /\ [][NextFunded]_vars

\* Storage as execute_payout may find it: group 1 at any cycle c, every
\* earlier cycle paid to a different member, the index entry of cycle c
\* present or absent, any payout positions and any contribution ledger entry
\* for cycle c.
PaidOrders(m, c) ==
    {s \in [1..c -> 1..m] : \A i, j \in 1..c : s[i] = s[j] => i = j}

StoredGroup(a, m, c) ==
    IF c >= m
    THEN [Group_new(1, a, m) EXCEPT !.current_cycle = c, !.status = "Completed",
                                    !.is_active = FALSE]
    ELSE [Group_new(1, a, m) EXCEPT !.current_cycle = c]

StoredIndex(c, paid, cur) ==
    [k \in ({1} \X (0..(c - 1))) \cup (IF cur = <<>> THEN {} ELSE {<<1, c>>}) |->
        IF k[2] < c THEN paid[k[2] + 1] ELSE cur[1]]

InitStorage ==
    \E m \in 2..MaxMembers, a \in Amounts :
    \E c \in 0..m, positions \in [1..m -> 0..(m - 1)], count \in 0..m :
    \E paid \in PaidOrders(m, c), cur \in {<<>>} \cup {<<r>> : r \in 1..m},
       total \in count..(count * MaxAmount) :
        /\ group_data = [g \in {1} |-> StoredGroup(a, m, c)]
        /\ group_members = [g \in {1} |-> [i \in 1..m |-> i]]
        /\ member_profile =
               [k \in {1} \X (1..m) |-> [payout_position |-> positions[k[2]]]]
        /\ payout_recipient = StoredIndex(c, paid, cur)
        /\ payout_record =
               [k \in DOMAIN StoredIndex(c, paid, cur) |->
                   PayoutRecord_new(StoredIndex(c, paid, cur)[k], 1, k[2], m * a, 1)]
        /\ contributions =
               IF count = 0 THEN EmptyMap
               ELSE [k \in {<<1, c>>} |-> [contributors_count |-> count,
                                           current_contributions |-> total]]
        /\ custody = total
        /\ transfers = <<>>
        /\ events = <<>>
        /\ history = <<>>
        /\ last = [op |-> "init", group_id |-> 0, result |-> "Ok"]
        /\ inflight = NoneInFlight
        /\ next_group_id = <<>>
        /\ issued = <<>>

\* execute_payout reading the placeholder balance or the custody balance.
ExecutePayoutStored ==
    \E group_id \in GroupIds, timestamp \in Timestamps :
        \E balance \in {PlaceholderBalance, custody} :
            Invoke(group_id, balance, timestamp, "none")

SpecStorage == InitStorage /\ [][ExecutePayoutStored]_vars

\* A contract with nothing stored, on which group ids are drawn.
InitCounter ==
    /\ group_data = EmptyMap
    /\ group_members = EmptyMap
    /\ member_profile = EmptyMap
    /\ payout_record = EmptyMap
    /\ payout_recipient = EmptyMap
    /\ contributions = EmptyMap
    /\ custody = 0
    /\ transfers = <<>>
    /\ events = <<>>
    /\ history = <<>>
    /\ last = [op |-> "init", group_id |-> 0, result |-> "Ok"]
    /\ inflight = NoneInFlight
    /\ next_group_id = <<>>
    /\ issued = <<>>

Drawn(op, r) ==
    /\ next_group_id' = r.stored
    /\ issued' = IF r.err = "Ok" THEN Append(issued, [id |-> r.val, by |-> op])
                 ELSE issued
    /\ last' = [op |-> op, group_id |-> 0, result |-> r.err]
    /\ UNCHANGED <<group_data, group_members, member_profile, payout_record,
                   payout_recipient, contributions, custody, transfers, events,
                   history, inflight>>

GenerateNextGroupId ==
    Drawn("generate_next_group_id", generate_next_group_id(next_group_id))

IncrementGroupId ==
    Drawn("increment_group_id", increment_group_id(next_group_id))

NextCounter == GenerateNextGroupId \/ IncrementGroupId

SpecCounter == InitCounter /\ [][NextCounter]_vars

----------------------------------------------------------------------------
(* The helpers of execute_payout, each called on its own as the unit tests *)
(* call them, on inputs drawn from the whole (scaled) range of their types. *)

\* Env::default() with some balance held for the contract by the token.
InitSteps ==
    \E balance \in 0..I128_MAX :
        /\ group_data = EmptyMap
        /\ group_members = EmptyMap
        /\ member_profile = EmptyMap
        /\ payout_record = EmptyMap
        /\ payout_recipient = EmptyMap
        /\ contributions = EmptyMap
        /\ custody = balance
        /\ transfers = <<>>
        /\ events = <<>>
        /\ history = <<>>
        /\ last = [op |-> "init", group_id |-> 0, result |-> "Ok"]
        /\ inflight = NoneInFlight
        /\ next_group_id = <<>>
        /\ issued = <<>>

\* A helper returned `result` (and `val`) on `args`, with storage left as `w`.
Called(op, args, result, val, w) ==
    /\ group_data' = w.group_data
    /\ group_members' = w.group_members
    /\ member_profile' = w.member_profile
    /\ payout_record' = w.payout_record
    /\ payout_recipient' = w.payout_recipient
    /\ contributions' = w.contributions
    /\ custody' = w.custody
    /\ transfers' = w.transfers
    /\ events' = w.events
    /\ last' = [op |-> op, group_id |-> 0, result |-> result, args |-> args,
                val |-> val]
    /\ UNCHANGED <<history, inflight, next_group_id, issued>>

\* verify_contract_balance(env, payout_amount) as the code stands
CallVerifyContractBalance ==
    \E payout_amount \in I128 :
        LET r == verify_contract_balance(PlaceholderBalance, payout_amount)
        IN  Called("verify_contract_balance", payout_amount, r.err, 0, World)

SpecBalance == InitSteps /\ [][CallVerifyContractBalance]_vars

PoolInfos ==
    [group_id : {1}, cycle : {0}, member_count : 0..MaxMembers,
     contribution_amount : I128, total_pool_amount : I128,
     current_contributions : {0}, contributors_count : {0},
     is_cycle_complete : {TRUE}]

CallCalculateAndValidatePayoutAmount ==
    \E pool_info \in PoolInfos :
        LET r == calculate_and_validate_payout_amount(pool_info)
        IN  Called("calculate_and_validate_payout_amount", pool_info, r.err, r.val,
                   World)

SpecAmount == InitCounter /\ [][CallCalculateAndValidatePayoutAmount]_vars

CallExecuteTransfer ==
    \E recipient \in Addresses, amount \in I128 :
        LET r == execute_transfer(World, recipient, amount)
        IN  /\ Len(transfers) < MaxCalls
            /\ Called("execute_transfer", amount, r.err, 0,
                      Commit(World, [result |-> r.err, w |-> r.w]))

SpecTransfer == InitSteps /\ [][CallExecuteTransfer]_vars

RecordAmounts == (-1)..MaxAmount

CallRecordPayout ==
    \E group_id \in GroupIds, cycle \in Cycles, recipient \in Addresses,
       amount \in RecordAmounts, timestamp \in Timestamps :
        LET r == record_payout(World, group_id, cycle, recipient, amount, timestamp)
        IN  /\ Cardinality(DOMAIN payout_record \cup {<<group_id, cycle>>}) <= MaxCalls
            /\ Called("record_payout", amount, r.err, 0,
                      Commit(World, [result |-> r.err, w |-> r.w]))

SpecRecord == InitCounter /\ [][CallRecordPayout]_vars

\* Storage holding the profiles of any set of (group, member) pairs and the
\* recipient index of a payout already made.
InitProfiles ==
    \E enrolled \in SUBSET (GroupIds \X Addresses) :
        /\ group_data = EmptyMap
        /\ group_members = EmptyMap
        /\ member_profile = [k \in enrolled |-> [payout_position |-> k[2] - 1]]
        /\ payout_record = EmptyMap
        /\ payout_recipient = [k \in {<<1, 0>>} |-> 1]
        /\ contributions = EmptyMap
        /\ custody = 0
        /\ transfers = <<>>
        /\ events = <<>>
        /\ history = <<>>
        /\ last = [op |-> "init", group_id |-> 0, result |-> "Ok"]
        /\ inflight = NoneInFlight
        /\ next_group_id = <<>>
        /\ issued = <<>>

CallUpdateMemberStatus ==
    \E group_id \in GroupIds, recipient \in Addresses :
        LET r == update_member_status(World, group_id, recipient)
        IN  Called("update_member_status", <<group_id, recipient>>, r.err, 0,
                   Commit(World, [result |-> r.err, w |-> r.w]))

SpecProfiles == InitProfiles /\ [][CallUpdateMemberStatus]_vars

\* The groups a caller can hold: full groups of any size at any cycle,
\* Completed from cycle max_members on.
HeldGroups ==
    {[StoredGroup(a, m, c) EXCEPT !.id = id] :
        id \in GroupIds, a \in {MaxAmount}, m \in 2..MaxMembers, c \in Cycles}

CallAdvanceCycleOrComplete ==
    \E group \in HeldGroups :
        LET r == advance_cycle_or_complete(World, group)
        IN  /\ group.current_cycle <= group.max_members
            /\ Len(events) < MaxCalls
            /\ Called("advance_cycle_or_complete", group, r.err, 0,
                      Commit(World, [result |-> r.err, w |-> r.w]))

SpecAdvance == InitCounter /\ [][CallAdvanceCycleOrComplete]_vars

\* Lists of distinct addresses, of any length
MemberLists ==
    UNION {{l \in [1..n -> Addresses] : \A i, j \in 1..n : l[i] = l[j] => i = j} :
           n \in 0..MaxMembers}

\* Storage of group 1 as enrollment may leave it: the member list absent or
\* any list, and a profile with any position for any set of addresses.
InitMembers ==
    \E listed \in {<<>>} \cup {<<l>> : l \in MemberLists},
       enrolled \in SUBSET Addresses :
        \E position \in [enrolled -> 0..(MaxMembers - 1)] :
            /\ group_data = EmptyMap
            /\ group_members = [g \in {1 : x \in DOMAIN listed} |-> listed[1]]
            /\ member_profile = [k \in {1} \X enrolled |->
                                     [payout_position |-> position[k[2]]]]
            /\ payout_record = EmptyMap
            /\ payout_recipient = EmptyMap
            /\ contributions = EmptyMap
            /\ custody = 0
            /\ transfers = <<>>
            /\ events = <<>>
            /\ history = <<>>
            /\ last = [op |-> "init", group_id |-> 0, result |-> "Ok"]
            /\ inflight = NoneInFlight
            /\ next_group_id = <<>>
            /\ issued = <<>>

CallIdentifyRecipient ==
    \E current_cycle \in Cycles, member_count \in 0..MaxMembers :
        LET r == identify_recipient(World, 1, current_cycle, member_count)
        IN  Called("identify_recipient", <<current_cycle, member_count>>, r.err,
                   r.val, World)

SpecMembers == InitMembers /\ [][CallIdentifyRecipient]_vars

\* A new Active group 1 whose enrollment is left in any state (member list
\* absent or any list, profiles with any position for any addresses) and is
\* not touched afterwards; contributions and payouts follow.
InitEnrolled ==
    \E m \in 2..MaxMembers, listed \in {<<>>} \cup {<<l>> : l \in MemberLists},
       enrolled \in SUBSET Addresses :
        \E position \in [enrolled -> 0..(MaxMembers - 1)] :
            /\ group_data = [g \in {1} |-> Group_new(1, MaxAmount, m)]
            /\ group_members = [g \in {1 : x \in DOMAIN listed} |-> listed[1]]
            /\ member_profile = [k \in {1} \X enrolled |->
                                     [payout_position |-> position[k[2]]]]
            /\ payout_record = EmptyMap
            /\ payout_recipient = EmptyMap
            /\ contributions = EmptyMap
            /\ custody = 0
            /\ transfers = <<>>
            /\ events = <<>>
            /\ history = <<>>
            /\ last = [op |-> "init", group_id |-> 0, result |-> "Ok"]
            /\ inflight = NoneInFlight
            /\ next_group_id = <<>>
            /\ issued = <<>>

\* A member pays the contribution amount into the current cycle of group 1.
ContributeShare ==
    LET group == group_data[1]
        key == <<1, group.current_cycle>>
        entry == ledger_entry(World, 1, group.current_cycle)
    IN  /\ group.status = "Active"
        /\ entry.contributors_count < group.member_count
        /\ contributions' = Put(contributions, key,
               [contributors_count |-> entry.contributors_count + 1,
                current_contributions |->
                    entry.current_contributions + group.contribution_amount])
        /\ custody' = custody + group.contribution_amount
        /\ last' = [op |-> "contribute", group_id |-> 1, result |-> "Ok"]
        /\ UNCHANGED <<group_data, group_members, member_profile, payout_record,
                       payout_recipient, transfers, events, history, inflight,
                       next_group_id, issued>>

\* execute_payout on group 1, the balance read from the token contract
ExecutePayoutEnrolled ==
    \E timestamp \in Timestamps : Invoke(1, custody, timestamp, "none")

NextEnrolled == ExecutePayoutEnrolled \/ ContributeShare

SpecEnrolled == InitEnrolled /\ [][NextEnrolled]_vars

----------------------------------------------------------------------------
(* execute_payout outside a serializing host: each invocation takes its      *)
(* steps one at a time on the shared storage, every write is in effect at    *)
(* once, and nothing is rolled back.                                         *)

Write(w) ==
    /\ group_data' = w.group_data
    /\ group_members' = w.group_members
    /\ member_profile' = w.member_profile
    /\ payout_record' = w.payout_record
    /\ payout_recipient' = w.payout_recipient
    /\ contributions' = w.contributions
    /\ custody' = w.custody
    /\ transfers' = w.transfers
    /\ events' = w.events
    /\ UNCHANGED <<next_group_id, issued>>

Continue(p, call) ==
    /\ inflight' = [inflight EXCEPT ![p] = call]
    /\ UNCHANGED <<history, last>>

Return(p, group_id, result) ==
    /\ inflight' = [inflight EXCEPT ![p] = Idle]
    /\ last' = [op |-> "execute_payout", group_id |-> group_id, result |-> result]
    /\ history' =
           IF result = "Ok"
           THEN Append(history,
                       [group_id |-> group_id, cycle |-> inflight[p].current_cycle,
                        recipient |-> inflight[p].recipient,
                        amount |-> inflight[p].payout_amount,
                        timestamp |-> inflight[p].timestamp])
           ELSE history

\* Step 1
LoadGroup(p) ==
    \E group_id \in GroupIds :
        /\ inflight[p].pc = "idle"
        /\ Write(World)
        /\ IF ~Has(group_data, group_id) THEN Return(p, group_id, "GroupNotFound")
           ELSE Continue(p, [Idle EXCEPT !.pc = "loaded", !.group_id = group_id,
                                         !.group = group_data[group_id],
                                         !.current_cycle =
                                             group_data[group_id].current_cycle])

\* Steps 2 and 3
CheckNotPaid(p) ==
    LET call == inflight[p]
    IN  /\ call.pc = "loaded"
        /\ Write(World)
        /\ IF require_active(call.group).err # "Ok"
           THEN Return(p, call.group_id, "InvalidState")
           ELSE IF payout_already_executed(World, call.group_id, call.current_cycle)
           THEN Return(p, call.group_id, "InvalidState")
           ELSE Continue(p, [call EXCEPT !.pc = "checked"])

\* Step 4
ValidateCycle(p) ==
    LET call == inflight[p]
        pool_info == validate_cycle_complete(World, call.group_id, call.current_cycle)
    IN  /\ call.pc = "checked"
        /\ Write(World)
        /\ IF pool_info.err # "Ok" THEN Return(p, call.group_id, pool_info.err)
           ELSE Continue(p, [call EXCEPT !.pc = "complete",
                                         !.pool_info = pool_info.val])

\* Step 5
IdentifyRecipient(p) ==
    LET call == inflight[p]
        recipient == identify_recipient(World, call.group_id, call.current_cycle,
                                        call.group.member_count)
    IN  /\ call.pc = "complete"
        /\ Write(World)
        /\ IF recipient.err # "Ok" THEN Return(p, call.group_id, recipient.err)
           ELSE Continue(p, [call EXCEPT !.pc = "identified",
                                         !.recipient = recipient.val])

\* Step 6
VerifyEligibility(p) ==
    LET call == inflight[p]
        eligible == verify_recipient_eligibility(World, call.group_id,
                                                 call.recipient, call.current_cycle)
    IN  /\ call.pc = "identified"
        /\ Write(World)
        /\ IF eligible.err # "Ok" THEN Return(p, call.group_id, eligible.err)
           ELSE Continue(p, [call EXCEPT !.pc = "eligible"])

\* Steps 7 and 8, the balance read from the token contract
VerifyBalance(p) ==
    LET call == inflight[p]
        payout_amount == calculate_and_validate_payout_amount(call.pool_info)
    IN  /\ call.pc = "eligible"
        /\ Write(World)
        /\ IF payout_amount.err # "Ok"
           THEN Return(p, call.group_id, payout_amount.err)
           ELSE IF verify_contract_balance(custody, payout_amount.val).err # "Ok"
           THEN Return(p, call.group_id, "PayoutFailed")
           ELSE Continue(p, [call EXCEPT !.pc = "validated",
                                         !.payout_amount = payout_amount.val])

\* Step 9
Transfer(p) ==
    LET call == inflight[p]
        s == execute_transfer(World, call.recipient, call.payout_amount)
    IN  /\ call.pc = "validated"
        /\ Write(s.w)
        /\ IF s.err # "Ok" THEN Return(p, call.group_id, s.err)
           ELSE Continue(p, [call EXCEPT !.pc = "transferred"])

\* Step 10
RecordPayout(p) ==
    \E timestamp \in Timestamps :
        LET call == inflight[p]
            s == record_payout(World, call.group_id, call.current_cycle,
                               call.recipient, call.payout_amount, timestamp)
        IN  /\ call.pc = "transferred"
            /\ Write(s.w)
            /\ IF s.err # "Ok" THEN Return(p, call.group_id, s.err)
               ELSE Continue(p, [call EXCEPT !.pc = "recorded",
                                             !.timestamp = timestamp])

\* Steps 11 and 12
UpdateAndNotify(p) ==
    LET call == inflight[p]
        s == update_member_status(World, call.group_id, call.recipient)
    IN  /\ call.pc = "recorded"
        /\ IF s.err # "Ok"
           THEN Write(s.w) /\ Return(p, call.group_id, s.err)
           ELSE /\ Write(emit_payout_event(s.w, call.group_id, call.recipient,
                                           call.payout_amount, call.current_cycle,
                                           call.timestamp))
                /\ Continue(p, [call EXCEPT !.pc = "notified"])

\* Step 13, on the group as this invocation loaded it
AdvanceCycle(p) ==
    LET call == inflight[p]
        s == advance_cycle_or_complete(World, call.group)
    IN  /\ call.pc = "notified"
        /\ Write(s.w)
        /\ Return(p, call.group_id, s.err)

NextInterleaved ==
    \/ \E p \in Procs :
          \/ LoadGroup(p)
          \/ CheckNotPaid(p)
          \/ ValidateCycle(p)
          \/ IdentifyRecipient(p)
          \/ VerifyEligibility(p)
          \/ VerifyBalance(p)
          \/ Transfer(p)
          \/ RecordPayout(p)
          \/ UpdateAndNotify(p)
          \/ AdvanceCycle(p)
    \/ Contribute

SpecInterleaved == Init /\ [][NextInterleaved]_vars

----------------------------------------------------------------------------
(* Properties *)

IsCall(l) == l.op = "execute_payout"

PaidFor(group_id, cycle) ==
    {i \in DOMAIN history :
        history[i].group_id = group_id /\ history[i].cycle = cycle}

CurrentCycle(group_id) == group_data[group_id].current_cycle

\* C1: for every group G and cycle c at most one execute_payout call executes
\* a transfer for (G, c), and that call is the one that wrote the Payout
\* Record for (G, c); every transfer in effect belongs to one such call.
C1_AtMostOnePayoutPerCycle ==
    /\ Len(transfers) = Len(history)
    /\ \A group_id \in GroupIds, cycle \in Cycles :
          LET n == Cardinality(PaidFor(group_id, cycle))
          IN  /\ n <= 1
              /\ n = 1 <=> Has(payout_record, <<group_id, cycle>>)

C1_Witness ==
    /\ Len(history) >= 2
    /\ IsCall(last) /\ last.result # "Ok"
    /\ Has(payout_record, <<1, 0>>) /\ Has(payout_record, <<1, 1>>)

C3_AtMostOnePayoutPerMember ==
    \A k1 \in DOMAIN payout_record, k2 \in DOMAIN payout_record :
        (k1[1] = k2[1] /\ payout_record[k1].recipient = payout_record[k2].recipient)
            => k1 = k2

C3_Witness ==
    /\ IsCall(last) /\ last.result = "InvalidRecipient"
    /\ Len(history) >= 1

\* C4: a successful execute_payout raises the stored current_cycle of its
\* group by exactly 1; no other step (a failing call included) changes it.
C4_MonotonicCycleAdvance ==
    [][\A group_id \in DOMAIN group_data :
          /\ group_id \in DOMAIN group_data'
          /\ IF IsCall(last') /\ last'.group_id = group_id /\ last'.result = "Ok"
             THEN group_data'[group_id].current_cycle = CurrentCycle(group_id) + 1
             ELSE group_data'[group_id].current_cycle = CurrentCycle(group_id)
      ]_vars

C4_Witness ==
    /\ Len(history) >= 2
    /\ CurrentCycle(1) = 2
    /\ IsCall(last) /\ last.result \notin {"Ok", "GroupNotFound"}

C6_CompletedIsTerminal ==
    [][\A group_id \in DOMAIN group_data :
          group_data[group_id].status = "Completed" =>
              /\ group_id \in DOMAIN group_data'
              /\ group_data'[group_id] = group_data[group_id]
              /\ (IsCall(last') /\ last'.group_id = group_id) =>
                    /\ last'.result = "InvalidState"
                    /\ UNCHANGED <<transfers, custody, payout_record,
                                   payout_recipient, history>>
      ]_vars

C6_Witness ==
    /\ IsCall(last) /\ last.result = "InvalidState"
    /\ Has(group_data, last.group_id)
    /\ group_data[last.group_id].status = "Completed"

\* C7: every successful execute_payout transferred exactly
\* member_count * contribution_amount to its recipient, and the Payout Record
\* holds the amount and the recipient of that transfer.
C7_AmountConservation ==
    /\ Len(transfers) = Len(history)
    /\ \A i \in DOMAIN history :
          LET h == history[i]
              group == group_data[h.group_id]
              key == <<h.group_id, h.cycle>>
          IN  /\ transfers[i].amount = group.member_count * group.contribution_amount
              /\ transfers[i].to = h.recipient
              /\ Has(payout_record, key)
              /\ payout_record[key].amount = transfers[i].amount
              /\ payout_record[key].recipient = transfers[i].to

C7_Witness ==
    /\ Len(history) >= 1
    /\ transfers[1].amount = 6
    /\ payout_record[<<1, 0>>].amount = 6

\* C8: an execute_payout that fails after its transfer step succeeded (the
\* record write, the member re-validation or the cycle advance fails with
\* InternalError) leaves no Payout Record and no recipient index for
\* (group, current_cycle), no transfer in effect, and the group unchanged.
C8_RollbackAtomicity ==
    [][(IsCall(last') /\ last'.result = "InternalError") =>
          /\ UNCHANGED <<group_data, payout_record, payout_recipient, transfers,
                         custody, history>>
          /\ ~Has(payout_record', <<last'.group_id, CurrentCycle(last'.group_id)>>)
          /\ ~Has(payout_recipient', <<last'.group_id, CurrentCycle(last'.group_id)>>)
      ]_vars

C8_Witness ==
    /\ IsCall(last) /\ last.result = "InternalError"
    /\ Len(history) >= 1

ValidationErrors ==
    {"GroupNotFound", "InvalidState", "CycleNotComplete", "InvalidAmount",
     "NotMember", "InvalidRecipient", "PayoutFailed"}

\* C9: in every reachable state, an execute_payout that returns a validation
\* error (steps 1-8) has written nothing: the world it leaves - group record,
\* payout records, recipient index, custody, transfers and events - is the
\* world it started from, before any rollback by the host.
C9_ValidationIsPure ==
    \A group_id \in GroupIds, timestamp \in Timestamps :
        LET r == execute_payout(World, group_id, PlaceholderBalance, timestamp, "none")
        IN  r.result \in ValidationErrors => r.w = World

C9_Witness ==
    /\ IsCall(last) /\ last.result = "PayoutFailed"
    /\ custody > 0

\* C10 as stated: for an Active group at cycle c < member_count - 1 whose m
\* members have all contributed exactly a for cycle c (held in custody), with
\* exactly one enrolled member at position c who has not been paid,
\* execute_payout returns Ok, pays m * a, stores the record for (group, c),
\* sets current_cycle to c + 1 and leaves the group Active.
C10_Ready(group_id) ==
    /\ Has(group_data, group_id)
    /\ LET group == group_data[group_id]
           c == group.current_cycle
           entry == ledger_entry(World, group_id, c)
           at_c == {k \in DOMAIN member_profile :
                       k[1] = group_id /\ member_profile[k].payout_position = c}
       IN  /\ group.status = "Active"
           /\ c < group.member_count - 1
           /\ entry.contributors_count = group.member_count
           /\ entry.current_contributions =
                  group.member_count * group.contribution_amount
           /\ custody >= group.member_count * group.contribution_amount
           /\ Cardinality(at_c) = 1
           /\ \A k \in at_c : \A key \in DOMAIN payout_recipient :
                  key[1] = group_id => payout_recipient[key] # k[2]

C10_ReadyCyclePaysOut ==
    [][\A group_id \in GroupIds :
          (C10_Ready(group_id) /\ IsCall(last') /\ last'.group_id = group_id) =>
              LET group == group_data[group_id]
                  c == group.current_cycle
              IN  /\ last'.result = "Ok"
                  /\ Len(transfers') = Len(transfers) + 1
                  /\ transfers'[Len(transfers')].amount =
                         group.member_count * group.contribution_amount
                  /\ Has(payout_record', <<group_id, c>>)
                  /\ group_data'[group_id].current_cycle = c + 1
                  /\ group_data'[group_id].status = "Active"
      ]_vars

\* The balances verify_contract_balance may read: the placeholder of the code
\* and the balance held in custody.
BalancesRead == {PlaceholderBalance, custody}

\* C11: for an Active group whose current cycle has no Payout Record and in
\* which fewer than member_count members have contributed, execute_payout
\* returns CycleNotComplete and leaves the world as it found it, whatever
\* balance step 8 would read.
C11_IncompleteCycleRejected ==
    \A group_id \in DOMAIN group_data, timestamp \in Timestamps,
       balance \in BalancesRead :
        LET group == group_data[group_id]
            entry == ledger_entry(World, group_id, group.current_cycle)
            r == execute_payout(World, group_id, balance, timestamp, "none")
        IN  (/\ group.status = "Active"
             /\ ~Has(payout_record, <<group_id, group.current_cycle>>)
             /\ entry.contributors_count < group.member_count)
            => (r.result = "CycleNotComplete" /\ r.w = World)

C11_Witness ==
    /\ IsCall(last) /\ last.result = "CycleNotComplete"
    /\ group_data[1].member_count = 3
    /\ ledger_entry(World, 1, CurrentCycle(1)).contributors_count = 2
    /\ custody >= 3 * group_data[1].contribution_amount

FullyFunded(group_id) ==
    LET group == group_data[group_id]
        entry == ledger_entry(World, group_id, group.current_cycle)
    IN  /\ group.status = "Active"
        /\ entry.contributors_count = group.member_count
        /\ entry.current_contributions = group.member_count * group.contribution_amount
        /\ custody >= group.member_count * group.contribution_amount

EveryMemberPaidOnce(group_id) ==
    LET group == group_data[group_id]
        paid == {i \in DOMAIN history : history[i].group_id = group_id}
    IN  /\ group.status = "Completed"
        /\ Cardinality(paid) = group.member_count
        /\ \A i \in DOMAIN group_members[group_id] :
              Cardinality({k \in DOMAIN payout_record :
                              /\ k[1] = group_id
                              /\ payout_record[k].recipient = group_members[group_id][i]}) = 1

\* C12 as stated: if the current cycle of the group is fully funded again and
\* again until the group completes, and execute_payout keeps being invoked,
\* the group eventually is Completed after exactly member_count successful
\* payouts, every member being the recipient of exactly one Payout Record.
C12_EventuallyCompleted ==
    ([]<>(group_data[1].status = "Completed" \/ FullyFunded(1)))
        => <>EveryMemberPaidOnce(1)

\* The members of the group enrolled at its current cycle's payout position.
AtPosition(group_id, cycle) ==
    {a \in Addresses :
        /\ Has(member_profile, <<group_id, a>>)
        /\ member_profile[<<group_id, a>>].payout_position = cycle}

\* The error of the lowest-numbered failing step, from the stored state.
C13_FirstFailure(group_id, balance) ==
    IF ~Has(group_data, group_id) THEN "GroupNotFound"
    ELSE LET group == group_data[group_id]
             c == group.current_cycle
             entry == ledger_entry(World, group_id, c)
             pool == group.contribution_amount * group.member_count
         IN  IF group.status # "Active" THEN "InvalidState"
             ELSE IF Has(payout_recipient, <<group_id, c>>) THEN "InvalidState"
             ELSE IF entry.contributors_count < group.member_count
                  THEN "CycleNotComplete"
             ELSE IF entry.current_contributions # pool THEN "InvalidAmount"
             ELSE IF Cardinality(AtPosition(group_id, c)) # 1 THEN "InvalidState"
             ELSE IF \E cycle \in 0..c :
                        /\ Has(payout_recipient, <<group_id, cycle>>)
                        /\ payout_recipient[<<group_id, cycle>>]
                               \in AtPosition(group_id, c)
                  THEN "InvalidRecipient"
             ELSE IF pool <= 0 THEN "InvalidAmount"
             ELSE IF balance < pool THEN "PayoutFailed"
             ELSE "Ok"

\* C13: whatever the stored state, execute_payout returns the error of the
\* lowest-numbered failing step in the order 1 group exists, 2 status Active,
\* 3 cycle not already paid, 4 cycle complete, 5 unique recipient, 6 recipient
\* eligible, 7 amount > 0, 8 balance sufficient.  In particular a non-Active
\* group with an incomplete cycle yields InvalidState, and an Active, unpaid,
\* incomplete cycle with no member at its position yields CycleNotComplete.
C13_LowestFailingStepWins ==
    \A group_id \in GroupIds, timestamp \in Timestamps,
       balance \in {PlaceholderBalance, custody} :
        LET r == execute_payout(World, group_id, balance, timestamp, "none")
        IN  /\ r.result = C13_FirstFailure(group_id, balance)
            /\ Has(group_data, group_id) =>
                  LET group == group_data[group_id]
                      c == group.current_cycle
                      incomplete == ledger_entry(World, group_id, c).contributors_count
                                        < group.member_count
                  IN  /\ (group.status # "Active" /\ incomplete)
                            => r.result = "InvalidState"
                      /\ (/\ group.status = "Active"
                          /\ ~Has(payout_recipient, <<group_id, c>>)
                          /\ incomplete
                          /\ AtPosition(group_id, c) = {})
                            => r.result = "CycleNotComplete"

\* Steps 3, 4 and 5 fail at once and the call returned the error of step 3.
C13_Witness ==
    /\ IsCall(last) /\ last.group_id = 1 /\ last.result = "InvalidState"
    /\ group_data[1].status = "Active"
    /\ Has(payout_recipient, <<1, CurrentCycle(1)>>)
    /\ ledger_entry(World, 1, CurrentCycle(1)).contributors_count
           < group_data[1].member_count
    /\ AtPosition(1, CurrentCycle(1)) = {}

\* C14: for every group id that has no stored Group, execute_payout returns
\* GroupNotFound and writes nothing, whatever else is stored; as a step of the
\* system such a call changes no storage.
C14_GroupNotFound ==
    /\ \A group_id \in GroupIds \ DOMAIN group_data, timestamp \in Timestamps :
          LET r == execute_payout(World, group_id, PlaceholderBalance, timestamp,
                                  "none")
          IN  r.result = "GroupNotFound" /\ r.w = World /\ r.paid = <<>>
    /\ (IsCall(last) /\ ~Has(group_data, last.group_id))
          => last.result = "GroupNotFound"

C14_Witness ==
    /\ IsCall(last) /\ last.group_id = 3 /\ last.result = "GroupNotFound"
    /\ ~Has(group_data, 3)
    /\ custody > 0

\* C15: for every stored group and every cycle number, identify_recipient
\* returns member M only if M is the one and only member whose payout_position
\* is that cycle; with no such member or with two or more it returns
\* InvalidState.
C15_UniqueRecipient ==
    \A group_id \in DOMAIN group_data, cycle \in Cycles :
        LET r == identify_recipient(World, group_id, cycle,
                                    group_data[group_id].member_count)
            at == AtPosition(group_id, cycle)
        IN  /\ r.err = "Ok" => at = {r.val}
            /\ Cardinality(at) # 1 => r.err = "InvalidState"

\* A fully funded cycle with two members at its position was refused.
C15_Witness ==
    /\ IsCall(last) /\ last.group_id = 1 /\ last.result = "InvalidState"
    /\ group_data[1].status = "Active"
    /\ FullyFunded(1)
    /\ Cardinality(AtPosition(1, CurrentCycle(1))) = 2
    /\ Len(history) >= 1

\* Steps 1-5 pass for the group: it is Active, its current cycle is unpaid
\* and ready, and one recipient is identified.
RecipientIdentified(group_id) ==
    /\ Has(group_data, group_id)
    /\ LET group == group_data[group_id]
           c == group.current_cycle
       IN  /\ group.status = "Active"
           /\ ~Has(payout_recipient, <<group_id, c>>)
           /\ validate_cycle_complete(World, group_id, c).err = "Ok"
           /\ identify_recipient(World, group_id, c, group.member_count).err = "Ok"

IndexedIn(group_id, recipient, cycles) ==
    \E cycle \in cycles :
        /\ Has(payout_recipient, <<group_id, cycle>>)
        /\ payout_recipient[<<group_id, cycle>>] = recipient

\* C16: when the recipient identified for the current cycle c of a group is
\* stored in the recipient index of a cycle in 0..c of that group,
\* execute_payout returns InvalidRecipient and transfers nothing; when it is
\* stored in no such entry of that group the call does not return
\* InvalidRecipient, whatever the index entries of other groups hold.
C16_PaidRecipientRejected ==
    \A group_id \in DOMAIN group_data, timestamp \in Timestamps,
       balance \in {PlaceholderBalance, custody} :
        RecipientIdentified(group_id) =>
            LET group == group_data[group_id]
                c == group.current_cycle
                recipient == identify_recipient(World, group_id, c,
                                                group.member_count).val
                r == execute_payout(World, group_id, balance, timestamp, "none")
            IN  IF IndexedIn(group_id, recipient, 0..c)
                THEN r.result = "InvalidRecipient" /\ r.w = World /\ r.paid = <<>>
                ELSE r.result # "InvalidRecipient"

\* Member 1 was paid by group 1 in cycle 0 although group 2 had paid it in
\* cycle 0, and a later call of group 1 returned InvalidRecipient.
C16_Witness ==
    /\ IsCall(last) /\ last.group_id = 1 /\ last.result = "InvalidRecipient"
    /\ Len(history) >= 1
    /\ history[1].group_id = 1 /\ history[1].cycle = 0 /\ history[1].recipient = 1
    /\ IndexedIn(2, 1, {0})
    /\ RecipientIdentified(1)
    /\ IndexedIn(1, identify_recipient(World, 1, CurrentCycle(1), 2).val,
                 0..(CurrentCycle(1) - 1))

\* C17: for an Active group whose current cycle is unpaid and in which all
\* member_count members have contributed a total other than
\* contribution_amount * member_count (more or less), execute_payout returns
\* InvalidAmount and leaves the world as it found it.
C17_WrongTotalRejected ==
    \A group_id \in DOMAIN group_data, timestamp \in Timestamps,
       balance \in {PlaceholderBalance, custody} :
        LET group == group_data[group_id]
            c == group.current_cycle
            entry == ledger_entry(World, group_id, c)
            r == execute_payout(World, group_id, balance, timestamp, "none")
        IN  (/\ group.status = "Active"
             /\ ~Has(payout_record, <<group_id, c>>)
             /\ ~Has(payout_recipient, <<group_id, c>>)
             /\ entry.contributors_count = group.member_count
             /\ entry.current_contributions #
                    group.contribution_amount * group.member_count)
            => (r.result = "InvalidAmount" /\ r.w = World /\ r.paid = <<>>)

\* An over-collected second cycle was refused although custody covers the pool.
C17_Witness ==
    /\ IsCall(last) /\ last.group_id = 1 /\ last.result = "InvalidAmount"
    /\ CurrentCycle(1) = 1
    /\ LET group == group_data[1]
           entry == ledger_entry(World, 1, 1)
       IN  /\ entry.contributors_count = group.member_count
           /\ entry.current_contributions >
                  group.contribution_amount * group.member_count
           /\ custody >= group.contribution_amount * group.member_count

\* The persistent state and the transfers of a world: everything but the
\* notifications published.
Persistent(w) ==
    [group_data |-> w.group_data, group_members |-> w.group_members,
     member_profile |-> w.member_profile, payout_record |-> w.payout_record,
     payout_recipient |-> w.payout_recipient, contributions |-> w.contributions,
     custody |-> w.custody, transfers |-> w.transfers]

PayoutEvents(evts) == {i \in DOMAIN evts : evts[i].kind = "payout_executed"}

KeyedBy(w, group_id) ==
    [group |-> {w.group_data[g] : g \in DOMAIN w.group_data \cap {group_id}},
     records |-> [k \in {x \in DOMAIN w.payout_record : x[1] = group_id} |->
                     w.payout_record[k]],
     index |-> [k \in {x \in DOMAIN w.payout_recipient : x[1] = group_id} |->
                   w.payout_recipient[k]],
     ledger |-> [k \in {x \in DOMAIN w.contributions : x[1] = group_id} |->
                    w.contributions[k]]]

Storage(w) ==
    [group_data |-> w.group_data, group_members |-> w.group_members,
     member_profile |-> w.member_profile, payout_record |-> w.payout_record,
     payout_recipient |-> w.payout_recipient, contributions |-> w.contributions,
     custody |-> w.custody]

SameEntries(s, t) ==
    /\ Len(s) = Len(t)
    /\ \A i \in DOMAIN s :
          Cardinality({j \in DOMAIN s : s[j] = s[i]})
              = Cardinality({j \in DOMAIN t : t[j] = s[i]})

BalanceRead(w, from_custody) == IF from_custody THEN w.custody ELSE PlaceholderBalance

\* One committed invocation after another, starting from world w.
InOrder(w, ga, ta, gb, tb, from_custody) ==
    LET first == execute_payout(w, ga, BalanceRead(w, from_custody), ta, "none")
        mid == Commit(w, first)
        second == execute_payout(mid, gb, BalanceRead(mid, from_custody), tb, "none")
    IN  [first |-> first.result, mid |-> mid, second |-> second.result,
         final |-> Commit(mid, second)]

\* C19: for any two distinct group ids G1 and G2, a committed
\* execute_payout(G1) leaves everything stored under G2 (group record, Payout
\* Records, recipient index) as it was, and execute_payout(G1) followed by
\* execute_payout(G2) returns the same two results and leaves the same storage
\* and the same transfers and notifications (up to their order) as
\* execute_payout(G2) followed by execute_payout(G1); with the placeholder
\* balance of the code and with the balance read from custody.
C19_GroupsIndependent ==
    \A g1 \in GroupIds, g2 \in GroupIds, t1 \in Timestamps, t2 \in Timestamps,
       from_custody \in BOOLEAN :
        g1 # g2 =>
            LET a == InOrder(World, g1, t1, g2, t2, from_custody)
                b == InOrder(World, g2, t2, g1, t1, from_custody)
            IN  /\ KeyedBy(a.mid, g2) = KeyedBy(World, g2)
                /\ a.first = b.second
                /\ a.second = b.first
                /\ Storage(a.final) = Storage(b.final)
                /\ SameEntries(a.final.transfers, b.final.transfers)
                /\ SameEntries(a.final.events, b.final.events)

\* Group 2 and then group 1 were paid their first cycle, nothing having been
\* contributed in between.
C19_Witness ==
    /\ IsCall(last) /\ last.group_id = 1 /\ last.result = "Ok"
    /\ Len(history) = 2
    /\ history[1].group_id = 2 /\ history[1].cycle = 0
    /\ history[2].group_id = 1 /\ history[2].cycle = 0
    /\ custody = 0
    /\ KeyedBy(World, 2).index = [k \in {<<2, 0>>} |-> 1]

\* The invocation has executed its transfer.
Transferred(p) == inflight[p].pc \in {"transferred", "recorded", "notified"}

\* Two invocations have both passed step 3 and both executed the transfer
\* for the same group and cycle.
DoublePayout ==
    \E p \in Procs, q \in Procs :
        /\ p # q
        /\ Transferred(p) /\ Transferred(q)
        /\ inflight[p].group_id = inflight[q].group_id
        /\ inflight[p].current_cycle = inflight[q].current_cycle

C21_IdsSequentialAndUnique ==
    /\ \A i \in DOMAIN issued : issued[i].id >= 1 /\ issued[i].id = i
    /\ \A i \in DOMAIN issued : i > 1 => issued[i].id = issued[i - 1].id + 1
    /\ \A i, j \in DOMAIN issued : issued[i].id = issued[j].id => i = j
    /\ unwrap_or(next_group_id, 0) = Len(issued)

\* Both functions have drawn ids from the one counter, in turn.
C21_Witness ==
    /\ Len(issued) = 4
    /\ issued[1].by = "increment_group_id"
    /\ issued[2].by = "generate_next_group_id"
    /\ issued[3].by = "increment_group_id"
    /\ issued[4].by = "generate_next_group_id"
    /\ next_group_id = <<4>>

\* C22: when the stored counter equals the maximum u64 value,
\* increment_group_id returns Overflow and leaves the stored counter as it
\* was; no call ever returns 0, an id above the maximum, or an id that was
\* already issued, and the counter never moves back.
C22_OverflowAtMaximum ==
    LET r == increment_group_id(next_group_id)
    IN  /\ next_group_id = <<U64_MAX>> =>
              /\ r.err = "Overflow"
              /\ r.stored = next_group_id
        /\ next_group_id # <<U64_MAX>> => r.err = "Ok"
        /\ r.err = "Ok" =>
              /\ r.val \in 1..U64_MAX
              /\ \A i \in DOMAIN issued : issued[i].id < r.val
              /\ r.stored = <<r.val>>
        /\ \A i \in DOMAIN issued : issued[i].id \in 1..U64_MAX
        /\ last.result = "Overflow" => next_group_id = <<U64_MAX>>

\* increment_group_id was called on a counter at the maximum and refused.
C22_Witness ==
    /\ last.op = "increment_group_id"
    /\ last.result = "Overflow"
    /\ next_group_id = <<U64_MAX>>
    /\ Len(issued) = U64_MAX

\* C23: once a Payout Record and a recipient-index entry exist for
\* (group, cycle), no later operation on any group changes or removes them:
\* recipient, group, cycle, amount and timestamp stay as first written.
C23_RecordsNeverRewritten ==
    [][/\ \A k \in DOMAIN payout_record :
              /\ Has(payout_record', k)
              /\ payout_record'[k] = payout_record[k]
       /\ \A k \in DOMAIN payout_recipient :
              /\ Has(payout_recipient', k)
              /\ payout_recipient'[k] = payout_recipient[k]]_vars

\* Group 1 was paid for cycle 0, then group 2 and group 1 were paid again at
\* another time, and a further call was refused.
C23_Witness ==
    /\ Has(payout_record, <<1, 0>>) /\ Has(payout_recipient, <<1, 0>>)
    /\ Has(payout_record, <<2, 0>>)
    /\ Has(payout_record, <<1, 1>>)
    /\ payout_record[<<1, 1>>].timestamp # payout_record[<<1, 0>>].timestamp
    /\ payout_record[<<2, 0>>].timestamp # payout_record[<<1, 0>>].timestamp
    /\ IsCall(last)
    /\ last.result = "InvalidState"

\* C24: in every state between operations, a full Payout Record exists for
\* (group, cycle) if and only if a recipient-index entry exists for it, the
\* two name the same recipient, and the record is filed under its own group
\* and cycle.
C24_RecordAndIndexTogether ==
    /\ DOMAIN payout_record = DOMAIN payout_recipient
    /\ \A k \in DOMAIN payout_record :
           /\ payout_record[k].recipient = payout_recipient[k]
           /\ <<payout_record[k].group_id, payout_record[k].cycle_number>> = k

\* Cycle 0 is recorded, and a call on the fully funded cycle 1 failed after
\* its transfer: neither key of cycle 1 is left behind.
C24_Witness ==
    /\ Has(payout_record, <<1, 0>>) /\ Has(payout_recipient, <<1, 0>>)
    /\ IsCall(last) /\ last.group_id = 1 /\ last.result = "InternalError"
    /\ group_data[1].current_cycle = 1
    /\ ledger_entry(World, 1, 1).contributors_count = group_data[1].member_count
    /\ ~Has(payout_record, <<1, 1>>) /\ ~Has(payout_recipient, <<1, 1>>)

\* The fields of a group fixed at creation.
Configuration(group) ==
    [id |-> group.id, creator |-> group.creator,
     contribution_amount |-> group.contribution_amount,
     cycle_duration |-> group.cycle_duration, max_members |-> group.max_members,
     min_members |-> group.min_members, member_count |-> group.member_count,
     created_at |-> group.created_at]

\* C25: execute_payout, whether it succeeds or fails, leaves every group's
\* configuration, the member lists, every member profile and the
\* contribution ledger unchanged; a failed call leaves the group records
\* unchanged, and a successful one changes only current_cycle, status and
\* is_active of the group paid.
C25_PayoutFrame ==
    [][IsCall(last') =>
          /\ group_members' = group_members
          /\ member_profile' = member_profile
          /\ contributions' = contributions
          /\ DOMAIN group_data' = DOMAIN group_data
          /\ \A g \in DOMAIN group_data :
                 Configuration(group_data'[g]) = Configuration(group_data[g])
          /\ \A g \in DOMAIN group_data :
                 g # last'.group_id => group_data'[g] = group_data[g]
          /\ last'.result # "Ok" => group_data' = group_data
          /\ last'.result = "Ok" =>
                 LET before == group_data[last'.group_id]
                     after == group_data'[last'.group_id]
                 IN  after = [before EXCEPT !.current_cycle = after.current_cycle,
                                            !.status = after.status,
                                            !.is_active = after.is_active]]_vars

\* A payout that completed a group whose members had been re-enrolled and had
\* contributed for every cycle.
C25_Witness ==
    /\ IsCall(last) /\ last.group_id = 1 /\ last.result = "Ok"
    /\ group_data[1].status = "Completed"
    /\ group_data[1].member_count = MaxMembers
    /\ member_profile[<<1, 1>>].payout_position # 0
    /\ \A c \in 0..(MaxMembers - 1) :
           ledger_entry(World, 1, c).contributors_count = MaxMembers

\* The contract's own persistent storage (the token's ledger left out).
ContractStorage(w) ==
    [group_data |-> w.group_data, group_members |-> w.group_members,
     member_profile |-> w.member_profile, payout_record |-> w.payout_record,
     payout_recipient |-> w.payout_recipient, contributions |-> w.contributions]

\* C26: the custodial-balance check fails with PayoutFailed exactly when the
\* balance held for the contract is less than the payout amount, and passes
\* when the balance equals or exceeds it.
C26_BalanceCheckReadsCustody ==
    last.op = "verify_contract_balance" =>
        (last.result = "PayoutFailed" <=> custody < last.args)

\* What the code does: the amount is compared with the placeholder 0,
\* whatever is held, and nothing is changed.
C26_ComparedWithPlaceholder ==
    last.op = "verify_contract_balance" =>
        /\ last.result = "PayoutFailed" <=> last.args > PlaceholderBalance
        /\ last.result \in {"Ok", "PayoutFailed"}

\* C27: calculate_and_validate_payout_amount returns Ok(total_pool_amount),
\* unchanged, for every total_pool_amount > 0 and InvalidAmount for every
\* total_pool_amount <= 0, whatever the other fields of the pool are.
C27_NetAmountIsTotal ==
    last.op = "calculate_and_validate_payout_amount" =>
        LET total_pool_amount == last.args.total_pool_amount
        IN  /\ total_pool_amount > 0 =>
                  last.result = "Ok" /\ last.val = total_pool_amount
            /\ total_pool_amount <= 0 => last.result = "InvalidAmount"

\* The largest total was passed with another contribution amount, and came
\* back as it was.
C27_Witness ==
    /\ last.op = "calculate_and_validate_payout_amount"
    /\ last.args.total_pool_amount = I128_MAX
    /\ last.args.contribution_amount = 1
    /\ last.result = "Ok"
    /\ last.val = I128_MAX

\* C28: execute_transfer returns PayoutFailed for every amount <= 0 and Ok
\* for every amount from 1 up to and including the maximum i128 value; it
\* never returns Overflow and never modifies the contract's storage.
C28_TransferOverWholeRange ==
    \A recipient \in Addresses, amount \in I128 :
        LET r == execute_transfer(World, recipient, amount)
        IN  /\ amount <= 0 => r.err = "PayoutFailed" /\ r.w = World
            /\ amount >= 1 => r.err = "Ok"
            /\ r.err # "Overflow"
            /\ ContractStorage(r.w) = ContractStorage(World)
            /\ r.w.events = events

\* The maximum amount was transferred after a refused one.
C28_Witness ==
    /\ last.op = "execute_transfer"
    /\ last.args = I128_MAX
    /\ last.result = "Ok"
    /\ Len(transfers) = MaxCalls
    /\ transfers[MaxCalls].amount = I128_MAX

\* C29: record_payout with amount > 0 returns Ok; the record stored for
\* (group, cycle) then holds exactly the recipient, group, cycle, amount and
\* timestamp passed and the index holds the recipient; the records and index
\* entries of every other (group, cycle), and everything else stored, are
\* unchanged.
C29_RecordStoresItsArguments ==
    \A group_id \in GroupIds, cycle \in Cycles, recipient \in Addresses,
       amount \in RecordAmounts, timestamp \in Timestamps :
        amount > 0 =>
            LET r == record_payout(World, group_id, cycle, recipient, amount, timestamp)
                key == <<group_id, cycle>>
            IN  /\ r.err = "Ok"
                /\ DOMAIN r.w.payout_record = DOMAIN payout_record \cup {key}
                /\ DOMAIN r.w.payout_recipient = DOMAIN payout_recipient \cup {key}
                /\ r.w.payout_record[key] =
                       [recipient |-> recipient, group_id |-> group_id,
                        cycle_number |-> cycle, amount |-> amount,
                        timestamp |-> timestamp]
                /\ r.w.payout_recipient[key] = recipient
                /\ \A k \in DOMAIN payout_record \ {key} :
                       r.w.payout_record[k] = payout_record[k]
                /\ \A k \in DOMAIN payout_recipient \ {key} :
                       r.w.payout_recipient[k] = payout_recipient[k]
                /\ r.w = [World EXCEPT !.payout_record = r.w.payout_record,
                                       !.payout_recipient = r.w.payout_recipient]

\* Two payouts were recorded, for the same cycle of two groups and to two
\* recipients.
C29_Witness ==
    /\ last.op = "record_payout" /\ last.result = "Ok"
    /\ Has(payout_record, <<1, 0>>) /\ Has(payout_record, <<2, 0>>)
    /\ payout_record[<<1, 0>>].recipient # payout_record[<<2, 0>>].recipient
    /\ payout_record[<<1, 0>>].group_id = 1
    /\ payout_record[<<2, 0>>].group_id = 2

\* C30: record_payout with amount <= 0 aborts with a panic, not an error
\* value, before any write: nothing is stored or changed, and the amount is
\* never replaced by another.
C30_InvalidAmountPanics ==
    /\ \A group_id \in GroupIds, cycle \in Cycles, recipient \in Addresses,
          amount \in RecordAmounts, timestamp \in Timestamps :
           amount <= 0 =>
               LET r == record_payout(World, group_id, cycle, recipient, amount,
                                      timestamp)
               IN  r.err = "Panic" /\ r.w = World
    /\ \A k \in DOMAIN payout_record : payout_record[k].amount > 0
    /\ last.op = "record_payout" /\ last.args <= 0 => last.result = "Panic"

\* A record was stored, and a call with amount 0 then panicked and left it.
C30_Witness ==
    /\ last.op = "record_payout" /\ last.result = "Panic" /\ last.args = 0
    /\ Cardinality(DOMAIN payout_record) = 1
    /\ DOMAIN payout_recipient = DOMAIN payout_record

\* C31: update_member_status(group, recipient) returns Ok exactly when a
\* member profile is stored for that (group, recipient) pair and
\* InternalError otherwise (a profile of the same address in another group
\* does not count); in both cases it writes nothing.
C31_ProfileOfThisGroup ==
    \A group_id \in GroupIds, recipient \in Addresses :
        LET r == update_member_status(World, group_id, recipient)
        IN  /\ r.err = "Ok" <=> Has(member_profile, <<group_id, recipient>>)
            /\ r.err # "Ok" => r.err = "InternalError"
            /\ r.w = World

\* The call was refused for a member of group 2 who has no profile in group 1.
C31_Witness ==
    /\ last.op = "update_member_status"
    /\ last.args = <<1, 2>>
    /\ last.result = "InternalError"
    /\ Has(member_profile, <<2, 2>>)
    /\ ~Has(member_profile, <<1, 2>>)
    /\ payout_recipient = [k \in {<<1, 0>>} |-> 1]

\* C32: advance_cycle_or_complete called on a group that is already Completed
\* aborts with a panic, not an error value, and writes nothing: the stored
\* current_cycle, status and is_active stay as they were.
C32_AdvanceOfCompletedPanics ==
    \A group \in HeldGroups :
        group.status = "Completed" =>
            LET r == advance_cycle_or_complete(World, group)
            IN  r.err = "Panic" /\ r.w = World

\* A group was advanced to completion and stored; the next advance of it
\* panicked and left the stored group as it was.
C32_Witness ==
    /\ last.op = "advance_cycle_or_complete"
    /\ last.result = "Panic"
    /\ last.args.status = "Completed"
    /\ Has(group_data, last.args.id)
    /\ group_data[last.args.id] = last.args
    /\ Len(events) = 1

Upto(group_id, timestamp, fault) ==
    execute_payout(World, group_id, custody, timestamp, fault).w

Grown(after, before) == Len(after) = Len(before) + 1

\* C34: in every successful execute_payout the steps occur in the order
\* transfer, record write, member re-validation, payout-executed event, cycle
\* advance; the event is emitted exactly once and carries the recipient,
\* amount, timestamp and pre-advance cycle number of the stored Payout
\* Record; a call that fails validation emits no event.
C34_StepOrderAndEvent ==
    \A group_id \in GroupIds, timestamp \in Timestamps :
        LET r == execute_payout(World, group_id, custody, timestamp, "none")
        IN  /\ r.result # "Ok" => r.w.events = events
            /\ r.result = "Ok" =>
                  LET c == group_data[group_id].current_cycle
                      key == <<group_id, c>>
                      rec == r.w.payout_record[key]
                      new == SubSeq(r.w.events, Len(events) + 1, Len(r.w.events))
                      at10 == Upto(group_id, timestamp, "record")
                      at11 == Upto(group_id, timestamp, "member")
                      at13 == Upto(group_id, timestamp, "advance")
                  IN  /\ Grown(at10.transfers, transfers)
                      /\ ~Has(at10.payout_record, key)
                      /\ at11.transfers = at10.transfers
                      /\ Has(at11.payout_record, key) /\ at11.events = events
                      /\ at13.payout_record = at11.payout_record
                      /\ Grown(at13.events, events)
                      /\ at13.group_data = group_data
                      /\ r.w.group_data[group_id].current_cycle = c + 1
                      /\ Cardinality(PayoutEvents(new)) = 1
                      /\ new[1] = [kind |-> "payout_executed", group_id |-> group_id,
                                   recipient |-> rec.recipient, amount |-> rec.amount,
                                   cycle |-> c, timestamp |-> rec.timestamp]
                      /\ rec.cycle_number = c
                      /\ at13.events = SubSeq(r.w.events, 1, Len(events) + 1)

\* The payout that completed the group: its event precedes the completion
\* event of the advance, and matches the record of the last cycle.
C34_Witness ==
    /\ IsCall(last) /\ last.result = "Ok"
    /\ Len(events) >= 2
    /\ events[Len(events)].kind = "group_completed"
    /\ events[Len(events) - 1].kind = "payout_executed"
    /\ events[Len(events) - 1].cycle = group_data[1].current_cycle - 1
    /\ Has(payout_record, <<1, events[Len(events) - 1].cycle>>)
    /\ payout_record[<<1, events[Len(events) - 1].cycle>>].timestamp
           = events[Len(events) - 1].timestamp

\* The listed members of group 1 whose profile holds the position `cycle`.
Matching(cycle) ==
    {i \in DOMAIN group_members[1] :
        /\ Has(member_profile, <<1, group_members[1][i]>>)
        /\ member_profile[<<1, group_members[1][i]>>].payout_position = cycle}

\* C35: identify_recipient returns GroupNotFound when the group's member list
\* is absent, and InvalidState when the length of the member list differs
\* from member_count or when any listed member has no stored profile, in each
\* case even if exactly one listed member has payout_position = current_cycle.
C35_BrokenEnrollmentRejected ==
    \A current_cycle \in Cycles, member_count \in 0..MaxMembers :
        LET r == identify_recipient(World, 1, current_cycle, member_count)
        IN  IF ~Has(group_members, 1) THEN r.err = "GroupNotFound"
            ELSE LET members == group_members[1]
                     unprofiled == {i \in DOMAIN members :
                                       ~Has(member_profile, <<1, members[i]>>)}
                 IN  /\ Len(members) # member_count => r.err = "InvalidState"
                     /\ unprofiled # {} => r.err = "InvalidState"
                     /\ r.err \in {"Ok", "InvalidState"}
                     /\ r.err = "Ok" =>
                            \E i \in Matching(current_cycle) : r.val = members[i]

\* One listed member holds the position asked for, another listed member has
\* no profile, and the call was refused.
C35_Witness ==
    /\ last.op = "identify_recipient" /\ last.result = "InvalidState"
    /\ Has(group_members, 1)
    /\ Len(group_members[1]) = last.args[2]
    /\ Cardinality(Matching(last.args[1])) = 1
    /\ \E i \in DOMAIN group_members[1] :
           ~Has(member_profile, <<1, group_members[1][i]>>)
    /\ 1 \in Matching(last.args[1])

\* C36: no cycle is skipped: in every state reached by serialized, committed
\* execute_payout calls from a fresh group, the cycles of the group that have
\* a Payout Record (and an index entry) are exactly 0 .. current_cycle - 1,
\* so the step-3 check for the current cycle never fires.
C36_NoCycleSkipped ==
    /\ \A g \in DOMAIN group_data :
           LET paid == 0..(group_data[g].current_cycle - 1)
           IN  /\ {k[2] : k \in {x \in DOMAIN payout_record : x[1] = g}} = paid
               /\ {k[2] : k \in {x \in DOMAIN payout_recipient : x[1] = g}} = paid
               /\ ~payout_already_executed(World, g, group_data[g].current_cycle)
    /\ \A k \in DOMAIN payout_record : Has(group_data, k[1])

\* Two payouts in a row were made on a group of three: cycles 0 and 1 are
\* recorded and the group stands at cycle 2.
C36_Witness ==
    /\ IsCall(last) /\ last.group_id = 1 /\ last.result = "Ok"
    /\ group_data[1].status = "Active"
    /\ CurrentCycle(1) = 2
    /\ Has(payout_record, <<1, 0>>) /\ Has(payout_record, <<1, 1>>)
    /\ ~Has(payout_recipient, <<1, 2>>)

\* C37: with the balance as the code reads it (the constant 0), no
\* execute_payout call ever returns Ok: every call that passes steps 1-7 has
\* a payout amount > 0 and fails at step 8 with PayoutFailed, so no Payout
\* Record is ever written and current_cycle stays 0 in every reachable state.
C37_PlaceholderBlocksEveryPayout ==
    /\ \A group_id \in GroupIds, timestamp \in Timestamps :
           LET v == validate_payout(World, group_id)
               r == execute_payout(World, group_id, PlaceholderBalance, timestamp,
                                   "none")
           IN  /\ r.result # "Ok"
               /\ v.err = "Ok" =>
                      /\ v.val.payout_amount > 0
                      /\ r.result = "PayoutFailed"
                      /\ r.w = World
    /\ IsCall(last) => last.result # "Ok"
    /\ payout_record = EmptyMap /\ payout_recipient = EmptyMap
    /\ history = <<>> /\ transfers = <<>>
    /\ \A g \in DOMAIN group_data : group_data[g].current_cycle = 0

\* Every member has paid in, the contract holds the whole pool, and the call
\* on the ready cycle was refused at step 8.
C37_Witness ==
    /\ IsCall(last) /\ last.group_id = 1 /\ last.result = "PayoutFailed"
    /\ validate_payout(World, 1).err = "Ok"
    /\ custody = validate_payout(World, 1).val.payout_amount
    /\ custody = MaxMembers * MaxAmount

\* Steps 1-8 pass for a call on `group_id`.
PassesValidation(group_id) ==
    LET v == validate_payout(World, group_id)
    IN  /\ v.err = "Ok"
        /\ verify_contract_balance(custody, v.val.payout_amount).err = "Ok"

\* C38: in a serialized execution, a call that passes validation steps 1-8
\* returns Ok: the transfer, the record write, the member re-validation and
\* the advance all succeed; a call that does not return Ok has written
\* nothing.
C38_NoErrorAfterValidation ==
    \A group_id \in GroupIds, timestamp \in Timestamps :
        LET r == execute_payout(World, group_id, custody, timestamp, "none")
        IN  /\ PassesValidation(group_id) <=> r.result = "Ok"
            /\ r.result # "Ok" => r.w = World
            /\ r.result # "Panic"

\* A group of two passed validation twice and was paid to completion, while
\* a third address has no profile in it.
C38_Witness ==
    /\ IsCall(last) /\ last.result = "Ok"
    /\ CurrentCycle(1) = 2
    /\ Len(history) = 2
    /\ \E a \in Addresses : ~Has(member_profile, <<1, a>>)
    /\ group_data[1].status = "Completed"

\* C39: execute_payout never returns NotMember in a serialized execution:
\* the recipient handed to the eligibility check of step 6 was found in
\* step 5 through a profile stored for this group, so it is a member.
C39_NeverNotMember ==
    /\ \A group_id \in GroupIds, timestamp \in Timestamps :
           /\ execute_payout(World, group_id, custody, timestamp, "none").result
                  # "NotMember"
           /\ execute_payout(World, group_id, PlaceholderBalance, timestamp,
                             "none").result # "NotMember"
           /\ LET v == validate_payout(World, group_id)
              IN  v.err \in {"Ok", "InvalidRecipient"} =>
                      \E s \in {identify_recipient(World, group_id,
                                    group_data[group_id].current_cycle,
                                    group_data[group_id].member_count)} :
                          /\ s.err = "Ok"
                          /\ Has(member_profile, <<group_id, s.val>>)
    /\ IsCall(last) => last.result # "NotMember"

\* Step 6 was reached at cycle 1 of a group of three with the recipient
\* found in step 5, and passed: the payout was made to the holder of
\* position 1.
C39_Witness ==
    /\ IsCall(last) /\ last.result = "Ok"
    /\ CurrentCycle(1) = 2
    /\ group_data[1].member_count = MaxMembers
    /\ Has(payout_recipient, <<1, 1>>)
    /\ Has(member_profile, <<1, payout_recipient[<<1, 1>>]>>)
    /\ member_profile[<<1, payout_recipient[<<1, 1>>]>>].payout_position = 1

\* C40: if member profiles and the member list are not modified between
\* payouts, execute_payout never returns InvalidRecipient: the recipient of
\* every recorded cycle k held payout_position k, so the member holding the
\* position of the current cycle is in the recipient index of no cycle.
C40_NeverInvalidRecipient ==
    /\ \A timestamp \in Timestamps :
           execute_payout(World, 1, custody, timestamp, "none").result
               # "InvalidRecipient"
    /\ \A k \in DOMAIN payout_recipient :
           /\ Has(member_profile, <<k[1], payout_recipient[k]>>)
           /\ member_profile[<<k[1], payout_recipient[k]>>].payout_position = k[2]
    /\ IsCall(last) => last.result # "InvalidRecipient"

\* Three payouts in a row went to three recipients, each holding the position
\* of its cycle.
C40_Witness ==
    /\ IsCall(last) /\ last.result = "Ok"
    /\ CurrentCycle(1) = 3
    /\ Cardinality({payout_recipient[<<1, c>>] : c \in 0..2}) = 3
    /\ \A c \in 0..2 :
           member_profile[<<1, payout_recipient[<<1, c>>]>>].payout_position = c

====
